---- MODULE Spec2Model ----
(***************************************************************************)
(* gsftp: the dual-pane navigation state machine of src/main.rs and        *)
(* src/app.rs over a local filesystem and a remote (SFTP) filesystem, the  *)
(* transfer workers it spawns, and what main does after the loop.          *)
(*                                                                         *)
(* A file name is the sequence of its byte values, a path the sequence of  *)
(* its components (the root is the empty path).  Each filesystem is the    *)
(* set of paths that exist in it; what a path is (file, directory,         *)
(* directory that cannot be opened) is fixed by KindOf.                    *)
(*                                                                         *)
(* SpecLoop follows the loop of main tick by tick, with the notice of      *)
(* src/draw.rs.  SpecEngine follows src/file_transfer.rs alone: one run    *)
(* of Transfer::execute over two disks that hold files with their bytes,   *)
(* directories and symbolic links, with an environment that lets at most   *)
(* one call fail and shows a remote mkdir after some sleeps.  SpecRetry    *)
(* follows the probes before the upload of one file step by step, and     *)
(* SpecExit the loop together with the joins that main makes after it.    *)
(***************************************************************************)
EXTENDS Integers, Sequences, FiniteSets, TLC

VARIABLES
    buf,             \* app.buf: [local, remote], the two working directories
    content,         \* app.content: [local, remote], the two listings
    state,           \* app.state: [local, remote: Option<usize>, active]
    show_hidden,     \* app.show_hidden
    transfers,       \* the transfers spawned so far, one per handle/receiver
    status,          \* "running", or the panic that ended the process
    overflow_checks, \* the build profile: TRUE panics on overflow, FALSE wraps
    fs,              \* [local, remote]: the paths that exist on each side
    fs_changes,      \* how many times the environment changed a filesystem
    scenario,        \* what a run explores: "dirs_change", "transfers", "ticks"
                     \* (the loop tick by tick), "engine" (the engine alone) or
                     \* "retry" (the probes before the upload of one file)
    workers,         \* the worker thread of each transfer: [pc, result, sends]
    chan,            \* the bounded(1) channel of each transfer: its messages
    completed_transfers, \* the counter of the messages the loop has received
    joined,          \* how many handles main has joined after the loop
    trip,            \* history: the enter the loop handled last, and its exit
    window,          \* the UiWindow of main: [text, style], each an Option
    user_has_pressed_buttons, \* main's flag: a key event has been handled
    ticks_elapsed,   \* main's counter of the ticks since the last refresh
    disk,            \* the transfer engine alone: [local, remote], each a
                     \* function from the paths that exist to what is there
    job              \* the transfer engine alone: the transfer it is given,
                     \* what the environment answered, and how it ended

\* What the spawned threads and their channels are made of.
spawned == <<workers, chan, completed_transfers, joined>>

\* What main keeps beside the App: the notice, the flag and the tick counter.
ui == <<window, user_has_pressed_buttons, ticks_elapsed>>

\* What a run of the transfer engine on its own is made of.
engine == <<disk, job>>

vars == <<buf, content, state, show_hidden, transfers, status, overflow_checks,
          fs, fs_changes, scenario, spawned, trip, ui, engine>>

---------------------------------------------------------------------------
\* Bounds of the model.

\* A run explores one of two scenarios, fixed when it starts: the environment
\* changes the directories under the program (at most MaxFsChanges times) and
\* no worker is spawned, or transfers are spawned (at most MaxTransfers) and
\* the directories change only by what the workers copy.  The build without
\* overflow checks, where an index can wrap, is followed in the first.

\* The environment creates or deletes an entry at most this many times.
MaxFsChanges == 1

\* At most this many transfers are spawned.
MaxTransfers == 1

\* An index that wrapped to usize::MAX is moved up at most this many times.
MaxHugeSteps == 1

\* In the runs that step through every tick, at most this many transfers are
\* spawned.
MaxLoopTransfers == 2

---------------------------------------------------------------------------
\* Option<usize> as a sequence of length at most one.

None == <<>>

Some(i) == <<i>>

\* usize::MAX.  The target's usize is wider than the model checker's integers;
\* the model uses the largest integer TLC holds.  Only two facts are used: it
\* exceeds every listing length, and usize arithmetic wraps around it.
UsizeMax == 2147483647

\* a - b in usize, wrapping (the result of a release build).
WrappingSub(a, b) == IF a >= b THEN a - b ELSE UsizeMax - (b - a) + 1

\* a + b in usize, wrapping (the result of a release build).
WrappingAdd(a, b) == IF a > UsizeMax - b THEN a - (UsizeMax - b) - 1 ELSE a + b

Min(a, b) == IF a <= b THEN a ELSE b

---------------------------------------------------------------------------
\* Names and paths.

\* The byte '.'.
Dot == 46

NameHidden == <<Dot, 104>>     \* ".h"

NameHidden2 == <<Dot, 105>>    \* ".i"

NameFile == <<97>>             \* "a"

NameDir == <<66>>              \* "B"

NameLocked == <<76>>           \* "L"

Root == <<>>

\* The directory both panes start in (the current directory of the process,
\* the home directory of the remote user).
Home == Root

\* Every path that can exist, on either side.
Universe ==
    { Root,
      <<NameHidden>>,
      <<NameFile>>,
      <<NameDir>>,
      <<NameDir, NameHidden>>,
      <<NameDir, NameHidden2>>,
      <<NameLocked>> }

\* What a path is when it exists: a regular file, a directory, or a directory
\* that cannot be opened for reading (permission denied).  The kind goes with
\* the name, so that a copy of an entry is what the entry is: B and .i are
\* directories, L is a directory that cannot be read, the rest are files.
KindOf(p) ==
    CASE p = Root -> "dir"
      [] p # Root /\ p[Len(p)] \in {NameDir, NameHidden2} -> "dir"
      [] p # Root /\ p[Len(p)] = NameLocked -> "locked"
      [] OTHER -> "file"

\* The paths the environment may create and delete.
Volatile == Universe \ {Root}

Sides == {"local", "remote"}

\* PathBuf::pop: drop the last component; the root stays the root.
Pop(p) == IF p = Root THEN Root ELSE SubSeq(p, 1, Len(p) - 1)

\* PathBuf::push / Path::join of a bare name.
Push(p, name) == Append(p, name)

\* Path::file_name.
FileName(p) == IF p = Root THEN <<>> ELSE p[Len(p)]

\* The text of a path: "/" before each component ("/" alone for the root).
\* A text is a sequence of bytes, as a name is.
Slash == 47

RECURSIVE PathStr(_)
PathStr(p) ==
    IF p = Root THEN <<Slash>>
    ELSE IF Len(p) = 1 THEN <<Slash>> \o p[1]
    ELSE PathStr(Pop(p)) \o <<Slash>> \o p[Len(p)]

IsPrefix(p, q) == Len(p) <= Len(q) /\ SubSeq(q, 1, Len(p)) = p

\* Path::exists, Path::is_dir, and whether a directory can be opened and read,
\* on filesystem f (a set of paths).
Exists(f, p) == p \in f

IsDirIn(f, p) == p \in f /\ KindOf(p) \in {"dir", "locked"}

CanReadDir(f, p) == p \in f /\ KindOf(p) = "dir"

\* The entries of directory p in f.
Entries(f, p) == { q \in f : q # Root /\ Pop(q) = p }

---------------------------------------------------------------------------
\* Listings.

\* str::to_lowercase on ASCII bytes.
ToLowercase(s) == [i \in DOMAIN s |-> IF s[i] >= 65 /\ s[i] <= 90 THEN s[i] + 32 ELSE s[i]]

\* Lexicographic order of byte strings: s < t.
RECURSIVE StrLess(_, _)
StrLess(s, t) ==
    IF t = <<>> THEN FALSE
    ELSE IF s = <<>> THEN TRUE
    ELSE IF s[1] # t[1] THEN s[1] < t[1]
    ELSE StrLess(Tail(s), Tail(t))

\* str::starts_with('.').
StartsWithDot(s) == Len(s) > 0 /\ s[1] = Dot

\* The order in which a backend enumerates a set of names: some fixed order.
RECURSIVE Enumerate(_)
Enumerate(S) ==
    IF S = {} THEN <<>>
    ELSE LET x == CHOOSE y \in S : TRUE IN <<x>> \o Enumerate(S \ {x})

\* The comparison of a sort: by lower-cased names (ignoreCase) or by bytes.
NameLess(s, t, ignoreCase) ==
    IF ignoreCase THEN StrLess(ToLowercase(s), ToLowercase(t)) ELSE StrLess(s, t)

\* Stable insertion of x into the sorted sequence s, after its equals.
RECURSIVE InsertSorted(_, _, _)
InsertSorted(x, s, ignoreCase) ==
    IF s = <<>> THEN <<x>>
    ELSE IF NameLess(x, s[1], ignoreCase) THEN <<x>> \o s
    ELSE <<s[1]>> \o InsertSorted(x, Tail(s), ignoreCase)

\* A stable sort of the sequence s (slice::sort_by, slice::sort).
RECURSIVE StableSort(_, _)
StableSort(s, ignoreCase) ==
    IF s = <<>> THEN <<>>
    ELSE InsertSorted(s[Len(s)], StableSort(SubSeq(s, 1, Len(s) - 1), ignoreCase),
                      ignoreCase)

\* app_utils::read_dir_contents: the paths of the entries of p that exist.
read_dir_contents(f, p) == Enumerate({ q \in Entries(f, p) : Exists(f, q) })

\* app_utils::sort_and_stringify.
sort_and_stringify(bufs, hidden) ==
    LET names == [i \in DOMAIN bufs |-> FileName(bufs[i])]
        nonEmpty == SelectSeq(names, LAMBDA s : s # <<>>)
        shown == SelectSeq(nonEmpty, LAMBDA s : hidden \/ ~StartsWithDot(s))
    IN  StableSort(shown, TRUE)

\* ls without the filter on the names.
ls_unfiltered(f, p, hidden) ==
    LET paths == Enumerate(Entries(f, p))
        names == [i \in DOMAIN paths |-> FileName(paths[i])]
    IN  StableSort(names, FALSE)

\* sftp::ls on a directory that can be read: the names, filtered, in byte order.
ls(f, p, hidden) ==
    LET paths == Enumerate(Entries(f, p))
        names == [i \in DOMAIN paths |-> FileName(paths[i])]
        shown == SelectSeq(names, LAMBDA s : hidden \/ ~StartsWithDot(s))
    IN  StableSort(shown, FALSE)

---------------------------------------------------------------------------
\* Re-listing a pane.  A listing call either succeeds or panics (unwrap).

\* AppContent::update_local: fs::read_dir(buf).unwrap() and the sorted names.
\* status is the panic when the unwrap panics; the listing is then left as it
\* was.
update_local(c, f, p, hidden) ==
    IF CanReadDir(f, p)
    THEN [status |-> "running",
          content |-> [c EXCEPT !.local = sort_and_stringify(read_dir_contents(f, p), hidden)]]
    ELSE [status |-> "panic: fs::read_dir(buf).unwrap()", content |-> c]

\* AppContent::update_remote: sftp::ls, whose readdir(..).unwrap() panics when
\* the path cannot be opened as a directory.
update_remote(c, f, p, hidden) ==
    IF CanReadDir(f, p)
    THEN [status |-> "running", content |-> [c EXCEPT !.remote = ls(f, p, hidden)]]
    ELSE [status |-> "panic: sftp readdir(buf).unwrap()", content |-> c]

\* update_local followed by update_remote, as the refresh tick and the
\* hidden-file toggle call them: the second runs only if the first returned.
update_both(c, hidden) ==
    LET l == update_local(c, fs.local, buf.local, hidden) IN
    IF l.status # "running" THEN l ELSE update_remote(l.content, fs.remote, buf.remote, hidden)

\* The pane that answers the keys.
ActivePane == IF state.active = "Local" THEN "local" ELSE "remote"

OtherPane(a) == IF a = "local" THEN "remote" ELSE "local"

\* The thread panics: the process is gone, nothing else changes.
Panic(what) ==
    /\ status' = what
    /\ trip' = <<>>
    /\ UNCHANGED <<buf, content, state, show_hidden, transfers, overflow_checks,
                   fs, fs_changes, scenario, spawned>>
    /\ UNCHANGED engine

---------------------------------------------------------------------------
\* The notice of the window, the flag and the tick counter of main.

\* const FPS: the ticker ticks this many times a second, and every FPS-th
\* tick is a refresh tick.
FPS == 60

\* UiWindow::default.
UiWindowDefault == [text |-> <<"Press '?' to toggle help">>, style |-> <<"default">>]

\* UiWindow::reset.
reset(w) == [text |-> None, style |-> None]

\* UiWindow::flashing_text.
flashing_text(w, text) == [text |-> <<text>>, style |-> <<"flash">>]

\* UiWindow::error_message.
error_message(w, text) == [text |-> <<text>>, style |-> <<"error">>]

\* The runs that step through every tick count them; in the others a refresh
\* tick stands for the FPS ticks that end in it, and the counter is left
\* where it is (a tick that is not a refresh tick changes nothing else).
CountsTicks == scenario = "ticks"

\* What every key event does before its key is looked at, and what no key but
\* the transfer key touches.
KeyEvent ==
    /\ user_has_pressed_buttons' = TRUE
    /\ UNCHANGED <<window, ticks_elapsed, engine>>

\* No run of the engine on its own: no disk of its own, no transfer given.
NoDisk == [local |-> <<>>, remote |-> <<>>]

NoJob == [phase |-> "none"]

---------------------------------------------------------------------------
\* The state after construction.

\* AppState::new.
AppStateNew == [local |-> Some(0), remote |-> Some(0), active |-> "Local"]

\* The two filesystems when the program starts.
InitialFs ==
    [local |-> Universe \ {<<NameLocked>>},
     remote |-> Universe \ {<<NameDir, NameHidden2>>}]

\* main up to the loop, for the value show_hidden has.
Constructed ==
    /\ fs = InitialFs
    /\ fs_changes = 0
    /\ buf = [local |-> Home, remote |-> Home]
    /\ content = [local |-> sort_and_stringify(read_dir_contents(InitialFs.local, Home),
                                               show_hidden),
                  remote |-> ls(InitialFs.remote, Home, show_hidden)]
    /\ state = AppStateNew
    /\ transfers = <<>>
    /\ status = "running"
    /\ workers = <<>>
    /\ chan = <<>>
    /\ completed_transfers = 0
    /\ joined = 0
    /\ trip = <<>>
    /\ window = UiWindowDefault
    /\ user_has_pressed_buttons = FALSE
    /\ ticks_elapsed = 0

Init ==
    /\ show_hidden \in BOOLEAN
    /\ Constructed
    /\ scenario \in {"dirs_change", "transfers"}
    /\ overflow_checks \in IF scenario = "transfers" THEN {TRUE} ELSE BOOLEAN
    /\ disk = NoDisk
    /\ job = NoJob

---------------------------------------------------------------------------
\* The event loop: the ticker arm.  What is drawn is not followed, and the
\* terminal takes every frame (a frame it refuses ends the process with
\* exit(1), from UiWindow::draw).

\* A count of the receivers polled, whatever try_recv gives.
ReceivedCountsPolls(ch) == Len(ch)

\* How many receivers give a message to try_recv: those whose channel holds one.
Received(ch) == Cardinality({ i \in DOMAIN ch : ch[i] # <<>> })

\* The for loop over the receivers, from receiver k on: w is the window so
\* far; a message that is not empty becomes the error notice.
RECURSIVE drain(_, _, _)
drain(ch, k, w) ==
    IF k > Len(ch) THEN w
    ELSE IF ch[k] # <<>> /\ ch[k][1] # ""
         THEN drain(ch, k + 1, error_message(w, ch[k][1]))
         ELSE drain(ch, k + 1, w)

\* The window before the for loop: reset when a key has been pressed and
\* every receiver has given its message.
reset_when_idle(w) ==
    IF user_has_pressed_buttons /\ Len(chan) = completed_transfers THEN reset(w) ELSE w

\* DrawTick with a draw that also moves the focus to the other pane.
DrawTickSwitchesPane ==
    /\ status = "running"
    /\ CountsTicks
    /\ (ticks_elapsed + 1) % FPS # 0
    /\ ticks_elapsed' = (ticks_elapsed + 1) % FPS
    /\ state' = [state EXCEPT !.active = IF @ = "Local" THEN "Remote" ELSE "Local"]
    /\ UNCHANGED <<buf, content, show_hidden, transfers, status, overflow_checks,
                   fs, fs_changes, scenario, spawned, trip, window,
                   user_has_pressed_buttons, engine>>

\* A tick on which ticks_elapsed does not wrap to 0: the frame is drawn.
DrawTick ==
    /\ status = "running"
    /\ CountsTicks
    /\ (ticks_elapsed + 1) % FPS # 0
    /\ ticks_elapsed' = (ticks_elapsed + 1) % FPS
    /\ UNCHANGED <<buf, content, state, show_hidden, transfers, status, overflow_checks,
                   fs, fs_changes, scenario, spawned, trip, window,
                   user_has_pressed_buttons, engine>>

\* A tick on which ticks_elapsed wraps to 0: both panes are re-listed, the
\* window is reset when idle, then every receiver is tried once, each message
\* received is counted and each error received becomes the notice.
RefreshTick ==
    /\ status = "running"
    /\ CountsTicks => (ticks_elapsed + 1) % FPS = 0
    /\ ticks_elapsed' = IF CountsTicks THEN (ticks_elapsed + 1) % FPS ELSE ticks_elapsed
    /\ LET r == update_both(content, show_hidden) IN
         /\ content' = r.content
         /\ status' = r.status
         /\ IF r.status # "running" THEN UNCHANGED <<chan, completed_transfers, window>>
            ELSE /\ chan' = [i \in DOMAIN chan |-> <<>>]
                 /\ completed_transfers' = completed_transfers + Received(chan)
                 /\ window' = drain(chan, 1, reset_when_idle(window))
    /\ trip' = <<>>
    /\ UNCHANGED <<buf, state, show_hidden, transfers, overflow_checks, fs, fs_changes,
                   scenario, workers, joined, user_has_pressed_buttons, engine>>

---------------------------------------------------------------------------
\* The event loop: the keys.

\* 'a': toggle hidden files and re-list both panes.
ToggleHidden ==
    /\ status = "running"
    /\ show_hidden' = ~show_hidden
    /\ LET r == update_both(content, ~show_hidden) IN
         /\ content' = r.content
         /\ status' = r.status
    /\ UNCHANGED <<buf, state, transfers, overflow_checks, fs, fs_changes, scenario, spawned>>
    /\ trip' = <<>>
    /\ KeyEvent

\* cmp::min(curr + 1, len - 1), for len > 0, where the addition wraps.
move_down_next(curr, len) == Min(WrappingAdd(curr, 1), len - 1)

\* 'j' / Down.
MoveDown ==
    /\ status = "running"
    /\ LET a == ActivePane
           len == Len(content[a])
       IN  IF len = 0 THEN UNCHANGED <<buf, content, state, show_hidden, transfers, status,
                                     overflow_checks, fs, fs_changes, scenario, spawned, trip>>
           ELSE IF state[a] = None THEN Panic("panic: selected().unwrap() on None")
           ELSE IF state[a][1] = UsizeMax /\ overflow_checks
                THEN Panic("panic: curr + 1 overflows")
           ELSE /\ state' = [state EXCEPT ![a] = Some(move_down_next(state[a][1], len))]
                /\ UNCHANGED <<buf, content, show_hidden, transfers, status,
                               overflow_checks, fs, fs_changes, scenario, spawned>>
                /\ trip' = <<>>
    /\ KeyEvent

\* The indices the model follows: those a listing can have given, and the
\* MaxHugeSteps values below usize::MAX.
InRange(sel) ==
    sel = None \/ sel[1] <= Cardinality(Universe) \/ sel[1] > UsizeMax - MaxHugeSteps

\* if curr > 0 { curr - 1 } else { curr }.
move_up_next(curr) == IF curr > 0 THEN curr - 1 ELSE curr

\* 'k' / Up.
MoveUp ==
    /\ status = "running"
    /\ InRange(state[ActivePane])
    /\ LET a == ActivePane
       IN  IF state[a] = None THEN Panic("panic: selected().unwrap() on None")
           ELSE /\ state' = [state EXCEPT ![a] = Some(move_up_next(state[a][1]))]
                /\ UNCHANGED <<buf, content, show_hidden, transfers, status,
                               overflow_checks, fs, fs_changes, scenario, spawned>>
                /\ trip' = <<>>
    /\ KeyEvent

\* JumpTop with a jump that puts the cursor of both panes on the first row.
JumpTopInBothPanes ==
    /\ status = "running"
    /\ state' = [state EXCEPT !.local = Some(0), !.remote = Some(0)]
    /\ UNCHANGED <<buf, content, show_hidden, transfers, status, overflow_checks,
                   fs, fs_changes, scenario, spawned>>
    /\ trip' = <<>>
    /\ KeyEvent

\* 'g' / 't' / Ctrl-Up.
JumpTop ==
    /\ status = "running"
    /\ state' = [state EXCEPT ![ActivePane] = Some(0)]
    /\ UNCHANGED <<buf, content, show_hidden, transfers, status, overflow_checks,
                   fs, fs_changes, scenario, spawned>>
    /\ trip' = <<>>
    /\ KeyEvent

\* 'b' / Ctrl-Down: len() - 1 in usize; with len = 0 the subtraction
\* overflows, which panics or wraps as the build decides.
JumpBottom ==
    /\ status = "running"
    /\ LET a == ActivePane
           len == Len(content[a])
       IN  IF len = 0 /\ overflow_checks THEN Panic("panic: len() - 1 overflows")
           ELSE /\ state' = [state EXCEPT ![a] = Some(WrappingSub(len, 1))]
                /\ UNCHANGED <<buf, content, show_hidden, transfers, status,
                               overflow_checks, fs, fs_changes, scenario, spawned>>
                /\ trip' = <<>>
    /\ KeyEvent

\* switch_active with both arms of the match giving Remote.
switch_active_stuck(active) == IF active = "Local" THEN "Remote" ELSE "Remote"

\* The match that switches tabs.
switch_active(active) == IF active = "Local" THEN "Remote" ELSE "Local"

\* Tab / 'w' / Ctrl-w.
SwitchPane ==
    /\ status = "running"
    /\ state' = [state EXCEPT !.active = switch_active(state.active)]
    /\ UNCHANGED <<buf, content, show_hidden, transfers, status, overflow_checks,
                   fs, fs_changes, scenario, spawned>>
    /\ trip' = <<>>
    /\ KeyEvent

---------------------------------------------------------------------------
\* Entering and leaving a directory.  Each operator gives the App after the
\* call; status is the panic when the call panicked (the fields are then those
\* at the moment of the panic).

App == [buf |-> buf, content |-> content, state |-> state, status |-> "running"]

\* Option::unwrap_or(0).
unwrap_or_0(sel) == IF sel = None THEN 0 ELSE sel[1]

\* cd_into_local without the reset of the selection after the re-list.
cd_into_local_keeps_selection(app, f, hidden) ==
    LET i == unwrap_or_0(app.state.local) IN
    IF i >= Len(app.content.local)
    THEN [app EXCEPT !.status = "panic: content.local[i] out of bounds"]
    ELSE LET pushed == Push(app.buf.local, app.content.local[i + 1]) IN
         IF ~IsDirIn(f, pushed) THEN app
         ELSE LET r == update_local(app.content, f, pushed, hidden) IN
              IF r.status # "running"
              THEN [app EXCEPT !.buf.local = pushed, !.status = r.status]
              ELSE [app EXCEPT !.buf.local = pushed, !.content = r.content]

\* App::cd_into_local.
cd_into_local(app, f, hidden) ==
    LET i == unwrap_or_0(app.state.local) IN
    IF i >= Len(app.content.local)
    THEN [app EXCEPT !.status = "panic: content.local[i] out of bounds"]
    ELSE LET pushed == Push(app.buf.local, app.content.local[i + 1]) IN
         IF ~IsDirIn(f, pushed) THEN app
         ELSE LET r == update_local(app.content, f, pushed, hidden) IN
              IF r.status # "running"
              THEN [app EXCEPT !.buf.local = pushed, !.status = r.status]
              ELSE [app EXCEPT !.buf.local = pushed,
                               !.content = r.content,
                               !.state.local = Some(0)]

\* The check of cd_into_remote that is to tell a file from a directory: the
\* first listed name against the text of the path.
first_is_path(listing, p) ==
    (IF listing = <<>> THEN <<>> ELSE listing[1]) = PathStr(p)

\* App::cd_into_remote.
cd_into_remote(app, f, hidden) ==
    IF app.content.remote = <<>> THEN app
    ELSE
    LET i == unwrap_or_0(app.state.remote) IN
    IF i >= Len(app.content.remote)
    THEN [app EXCEPT !.status = "panic: content.remote[i] out of bounds"]
    ELSE LET pushed == Push(app.buf.remote, app.content.remote[i + 1])
             r == update_remote(app.content, f, pushed, hidden)
         IN  IF r.status # "running"
             THEN [app EXCEPT !.buf.remote = pushed, !.status = r.status]
             ELSE IF first_is_path(r.content.remote, pushed)
             THEN LET back == update_remote(r.content, f, Pop(pushed), hidden) IN
                  [app EXCEPT !.buf.remote = Pop(pushed),
                              !.content = back.content,
                              !.status = back.status]
             ELSE [app EXCEPT !.buf.remote = pushed,
                              !.content = r.content,
                              !.state.remote = Some(0)]

\* cd_out_of_local without the reset of the selection after the re-list.
cd_out_of_local_keeps_selection(app, f, hidden) ==
    LET parent == Pop(app.buf.local)
        r == update_local(app.content, f, parent, hidden)
    IN  IF r.status # "running"
        THEN [app EXCEPT !.buf.local = parent, !.status = r.status]
        ELSE [app EXCEPT !.buf.local = parent, !.content = r.content]

\* App::cd_out_of_local.
cd_out_of_local(app, f, hidden) ==
    LET parent == Pop(app.buf.local)
        r == update_local(app.content, f, parent, hidden)
    IN  IF r.status # "running"
        THEN [app EXCEPT !.buf.local = parent, !.status = r.status]
        ELSE [app EXCEPT !.buf.local = parent,
                         !.content = r.content,
                         !.state.local = Some(0)]

\* cd_out_of_remote without the pop: the working dir is re-listed as it is.
cd_out_of_remote_no_pop(app, f, hidden) ==
    LET r == update_remote(app.content, f, app.buf.remote, hidden)
    IN  IF r.status # "running"
        THEN [app EXCEPT !.status = r.status]
        ELSE [app EXCEPT !.content = r.content, !.state.remote = Some(0)]

\* App::cd_out_of_remote.
cd_out_of_remote(app, f, hidden) ==
    LET parent == Pop(app.buf.remote)
        r == update_remote(app.content, f, parent, hidden)
    IN  IF r.status # "running"
        THEN [app EXCEPT !.buf.remote = parent, !.status = r.status]
        ELSE [app EXCEPT !.buf.remote = parent,
                         !.content = r.content,
                         !.state.remote = Some(0)]

\* The App becomes app.
Becomes(app) ==
    /\ buf' = app.buf
    /\ content' = app.content
    /\ state' = app.state
    /\ status' = app.status

\* 'l' / Right.
Enter ==
    /\ status = "running"
    /\ Becomes(IF state.active = "Local"
               THEN cd_into_local(App, fs.local, show_hidden)
               ELSE cd_into_remote(App, fs.remote, show_hidden))
    /\ trip' = IF status' = "running" /\ buf' # buf
               THEN [phase |-> "entered", pane |-> ActivePane, buf |-> buf[ActivePane],
                     listing |-> content[ActivePane],
                     entries |-> { FileName(q) : q \in Entries(fs[ActivePane], buf[ActivePane]) }]
               ELSE <<>>
    /\ UNCHANGED <<show_hidden, transfers, overflow_checks, fs, fs_changes, scenario, spawned>>
    /\ KeyEvent

\* 'h' / Left.
Exit ==
    /\ status = "running"
    /\ Becomes(IF state.active = "Local"
               THEN cd_out_of_local(App, fs.local, show_hidden)
               ELSE cd_out_of_remote(App, fs.remote, show_hidden))
    /\ trip' = IF trip # <<>> /\ trip.phase = "entered" /\ trip.pane = ActivePane
               THEN [trip EXCEPT !.phase = "returned"]
               ELSE <<>>
    /\ UNCHANGED <<show_hidden, transfers, overflow_checks, fs, fs_changes, scenario, spawned>>
    /\ KeyEvent

---------------------------------------------------------------------------
\* Triggering a transfer.

\* new_transfer with the destination joined to the working dir of pane a
\* itself.
new_transfer_same_side(a) ==
    IF state[a] = None
    THEN [status |-> "panic: selected().unwrap() on None"]
    ELSE IF state[a][1] >= Len(content[a])
    THEN [status |-> "panic: Transfer: content[i] out of bounds"]
    ELSE LET name == content[a][state[a][1] + 1] IN
         [status |-> "running",
          transfer |-> [kind |-> IF a = "local" THEN "Upload" ELSE "Download",
                        from |-> Push(buf[a], name),
                        to |-> Push(buf[a], name)]]

\* Transfer::upload / Transfer::download: the request made from the selection
\* of pane a; status is the panic when the unwrap or the indexing panics.
new_transfer(a) ==
    IF state[a] = None
    THEN [status |-> "panic: selected().unwrap() on None"]
    ELSE IF state[a][1] >= Len(content[a])
    THEN [status |-> "panic: Transfer: content[i] out of bounds"]
    ELSE LET name == content[a][state[a][1] + 1] IN
         [status |-> "running",
          transfer |-> [kind |-> IF a = "local" THEN "Upload" ELSE "Download",
                        from |-> Push(buf[a], name),
                        to |-> Push(buf[OtherPane(a)], name)]]

\* Enter / 'y': make the request, spawn its worker and register its receiver
\* (spawn_transfer_thread), then re-list the destination pane.
TriggerTransfer ==
    /\ status = "running"
    /\ \/ new_transfer(ActivePane).status # "running"
       \/ scenario = "transfers" /\ Len(transfers) < MaxTransfers
       \/ scenario = "ticks" /\ Len(transfers) < MaxLoopTransfers
    /\ user_has_pressed_buttons' = TRUE
    /\ window' = flashing_text(window, IF ActivePane = "local" THEN "Uploading..."
                                                              ELSE "Downloading...")
    /\ UNCHANGED <<ticks_elapsed, engine>>
    /\ LET a == ActivePane
           t == new_transfer(a)
       IN  IF t.status # "running" THEN Panic(t.status)
           ELSE LET r == IF a = "local"
                         THEN update_remote(content, fs.remote, buf.remote, show_hidden)
                         ELSE update_local(content, fs.local, buf.local, show_hidden)
                IN  /\ transfers' = Append(transfers, t.transfer)
                    /\ workers' = Append(workers, [pc |-> "spawned", result |-> "", sends |-> 0])
                    /\ chan' = Append(chan, <<>>)
                    /\ content' = r.content
                    /\ status' = r.status
                    /\ trip' = <<>>
                    /\ UNCHANGED <<buf, state, show_hidden, overflow_checks, fs, fs_changes,
                                   scenario, completed_transfers, joined>>

---------------------------------------------------------------------------
\* The environment: the directories change under the program.

\* An entry appears in a directory that exists.
FsCreate ==
    /\ status = "running"
    /\ scenario = "dirs_change"
    /\ fs_changes < MaxFsChanges
    /\ \E side \in Sides, p \in Volatile :
         /\ p \notin fs[side]
         /\ IsDirIn(fs[side], Pop(p))
         /\ fs' = [fs EXCEPT ![side] = @ \cup {p}]
    /\ fs_changes' = fs_changes + 1
    /\ UNCHANGED <<buf, content, state, show_hidden, transfers, status, overflow_checks,
                   scenario, spawned>>
    /\ trip' = <<>>
    /\ UNCHANGED <<ui, engine>>

\* An entry disappears, with everything below it.
FsDelete ==
    /\ status = "running"
    /\ scenario = "dirs_change"
    /\ fs_changes < MaxFsChanges
    /\ \E side \in Sides, p \in Volatile :
         /\ p \in fs[side]
         /\ fs' = [fs EXCEPT ![side] = { q \in @ : ~IsPrefix(p, q) }]
    /\ fs_changes' = fs_changes + 1
    /\ UNCHANGED <<buf, content, state, show_hidden, transfers, status, overflow_checks,
                   scenario, spawned>>
    /\ trip' = <<>>
    /\ UNCHANGED <<ui, engine>>

---------------------------------------------------------------------------
\* The transfer workers.  A worker runs Transfer::execute and then sends its
\* one message; what the session and the disks answer is the environment's
\* choice (io).

\* The process is there: main has neither returned nor panicked.
Alive == status \in {"running", "left_loop", "joining"}

\* A file or directory can be created at p: its parent is a directory.
CanCreateIn(f, p) == p # Root /\ IsDirIn(f, Pop(p))

\* The tree at src, as far as a recursive copy reads it: src and what is
\* below the directories of it that can be read.
Tree(f, src) ==
    { q \in f : /\ IsPrefix(src, q)
                /\ \A k \in Len(src)..(Len(q) - 1) : CanReadDir(f, SubSeq(q, 1, k)) }

\* Where the copy of src to dst puts q, a path of the tree at src.
Rebase(q, src, dst) == dst \o SubSeq(q, Len(src) + 1, Len(q))

\* What the environment can answer to a worker: every call succeeds, a call
\* that returns its error to execute fails, or (download) the stat of the
\* opened file fails.
IoOutcomes(kind) ==
    IF kind = "Download" THEN {"ok", "err", "stat_err"} ELSE {"ok", "err"}

\* file_transfer::download: how execute ends ("Ok", "Err" with the call that
\* is its cause, "panic") and the filesystems it leaves.
download(t, f, io) ==
    IF io = "err" \/ ~Exists(f.remote, t.from) \/ KindOf(t.from) = "locked"
    THEN [end |-> "Err", cause |-> "open", fs |-> f]        \* sftp.open(from)?
    ELSE IF io = "stat_err"
    THEN [end |-> "panic", fs |-> f]                        \* stat().expect("no stats")
    ELSE IF ~IsDirIn(f.remote, t.from)
    THEN [end |-> "Ok",                                     \* download_file
          fs |-> IF CanCreateIn(f.local, t.to)
                 THEN [f EXCEPT !.local = @ \cup {t.to}] ELSE f]
    ELSE [end |-> "Ok",                                     \* download_directory_recursive
          fs |-> IF t.to \notin f.local /\ CanCreateIn(f.local, t.to)
                 THEN [f EXCEPT !.local =
                          @ \cup { Rebase(q, t.from, t.to) : q \in Tree(f.remote, t.from) }]
                 ELSE f]

\* file_transfer::upload.
upload(t, f, io) ==
    IF IsDirIn(f.local, t.from)
    THEN IF io = "err"
         THEN [end |-> "Err", cause |-> "channel_session", fs |-> f]  \* sess.channel_session()?
         ELSE LET made == IF CanCreateIn(f.remote, t.to)
                          THEN [f EXCEPT !.remote =
                                   @ \cup { Rebase(q, t.from, t.to) : q \in Tree(f.local, t.from) }]
                          ELSE f
              IN  IF \E q \in Tree(f.local, t.from) : KindOf(q) = "locked"
                  THEN [end |-> "panic", fs |-> made]        \* read_dir_contents: unwrap
                  ELSE [end |-> "Ok", fs |-> made]
    ELSE IF CanCreateIn(f.remote, t.to)                     \* upload_file
         THEN [end |-> IF io = "err" THEN "Err" ELSE "Ok",  \* write_all(&buf)?
               cause |-> "write_all",
               fs |-> [f EXCEPT !.remote = @ \cup {t.to}]]
         ELSE [end |-> "Ok", fs |-> f]

\* Transfer::execute.
execute(t, f, io) == IF t.kind = "Download" THEN download(t, f, io) ELSE upload(t, f, io)

\* The worker of transfer i runs transfer.execute().
WorkerExecute(i) ==
    /\ Alive
    /\ workers[i].pc = "spawned"
    /\ \E io \in IoOutcomes(transfers[i].kind) :
         LET e == execute(transfers[i], fs, io) IN
           /\ fs' = e.fs
           /\ workers' = [workers EXCEPT ![i] =
                             IF e.end = "panic" THEN [@ EXCEPT !.pc = "panicked"]
                             ELSE [@ EXCEPT !.pc = "executed",
                                            !.result = IF e.end = "Ok" THEN "Ok" ELSE e.cause]]
    /\ trip' = IF fs' = fs THEN trip ELSE <<>>
    /\ UNCHANGED <<buf, content, state, show_hidden, transfers, status, overflow_checks,
                   fs_changes, scenario, chan, completed_transfers, joined>>
    /\ UNCHANGED <<ui, engine>>

\* TransferError::from(error), as its Display shows it.
TransferErrorFrom(error) == "TRANSFER ERROR: " \o error

\* The message of a worker that sends the text of the error alone, with an
\* error that has no text.
message_is_error_text(result) == ""

\* What the worker sends for a result of execute ("Ok", or the cause of the
\* error): String::new(), or format!("Transfer error: {}", err).
message(result) ==
    IF result = "Ok" THEN "" ELSE "Transfer error: " \o TransferErrorFrom(result)

\* WorkerSend with a worker that also puts the cursor of the destination pane
\* on the first row.
WorkerSendMovesCursor(i) ==
    /\ Alive
    /\ workers[i].pc = "executed"
    /\ Len(chan[i]) < 1
    /\ chan' = [chan EXCEPT ![i] = Append(@, message(workers[i].result))]
    /\ workers' = [workers EXCEPT ![i] = [@ EXCEPT !.pc = "sent", !.sends = @ + 1]]
    /\ state' = IF transfers[i].kind = "Upload"
                THEN [state EXCEPT !.remote = Some(0)]
                ELSE [state EXCEPT !.local = Some(0)]
    /\ UNCHANGED <<buf, content, show_hidden, transfers, status, overflow_checks,
                   fs, fs_changes, scenario, completed_transfers, joined, trip>>
    /\ UNCHANGED <<ui, engine>>

\* WorkerSend with a worker that is to send once more after its message.
WorkerSendsAgain(i) ==
    /\ Alive
    /\ workers[i].pc = "executed"
    /\ Len(chan[i]) < 1
    /\ chan' = [chan EXCEPT ![i] = Append(@, message(workers[i].result))]
    /\ workers' = [workers EXCEPT ![i] = [@ EXCEPT !.sends = @ + 1]]
    /\ UNCHANGED <<buf, content, state, show_hidden, transfers, status, overflow_checks,
                   fs, fs_changes, scenario, completed_transfers, joined, trip>>
    /\ UNCHANGED <<ui, engine>>

\* The worker of transfer i sends its message and ends.
WorkerSend(i) ==
    /\ Alive
    /\ workers[i].pc = "executed"
    /\ Len(chan[i]) < 1
    /\ chan' = [chan EXCEPT ![i] = Append(@, message(workers[i].result))]
    /\ workers' = [workers EXCEPT ![i] = [@ EXCEPT !.pc = "sent", !.sends = @ + 1]]
    /\ UNCHANGED <<buf, content, state, show_hidden, transfers, status, overflow_checks,
                   fs, fs_changes, scenario, completed_transfers, joined, trip>>
    /\ UNCHANGED <<ui, engine>>

---------------------------------------------------------------------------
\* Leaving the loop, and what main does after it.

\* A message on ctrl_c_events: break.
Interrupt ==
    /\ status = "running"
    /\ status' = "left_loop"
    /\ trip' = <<>>
    /\ UNCHANGED <<buf, content, state, show_hidden, transfers, overflow_checks,
                   fs, fs_changes, scenario, spawned>>
    /\ UNCHANGED <<ui, engine>>

\* 'q' / Esc / Ctrl-c: break.
Quit ==
    /\ status = "running"
    /\ status' = "left_loop"
    /\ trip' = <<>>
    /\ UNCHANGED <<buf, content, state, show_hidden, transfers, overflow_checks,
                   fs, fs_changes, scenario, spawned>>
    /\ KeyEvent

\* cleanup_terminal()?: main goes on to the joins, or returns the error.
CleanupTerminal ==
    /\ status = "left_loop"
    /\ \E ok \in BOOLEAN :
         status' = IF ok THEN "joining" ELSE "exit: Err(cleanup_terminal)"
    /\ UNCHANGED <<buf, content, state, show_hidden, transfers, overflow_checks,
                   fs, fs_changes, scenario, spawned, trip>>
    /\ UNCHANGED <<ui, engine>>

\* handle.join().unwrap() on the next handle: returns when its thread has
\* ended, panics when the thread panicked.
JoinHandle ==
    /\ status = "joining"
    /\ joined < Len(workers)
    /\ workers[joined + 1].pc \in {"sent", "panicked"}
    /\ IF workers[joined + 1].pc = "panicked"
       THEN status' = "panic: handle.join().unwrap()" /\ UNCHANGED joined
       ELSE joined' = joined + 1 /\ UNCHANGED status
    /\ UNCHANGED <<buf, content, state, show_hidden, transfers, overflow_checks,
                   fs, fs_changes, scenario, workers, chan, completed_transfers, trip>>
    /\ UNCHANGED <<ui, engine>>

\* Every handle is joined: main returns Ok(()).
MainReturns ==
    /\ status = "joining"
    /\ joined = Len(workers)
    /\ status' = "exit: Ok"
    /\ UNCHANGED <<buf, content, state, show_hidden, transfers, overflow_checks,
                   fs, fs_changes, scenario, spawned, trip>>
    /\ UNCHANGED <<ui, engine>>

---------------------------------------------------------------------------

Next ==
    \/ RefreshTick
    \/ ToggleHidden
    \/ MoveDown
    \/ MoveUp
    \/ JumpTop
    \/ JumpBottom
    \/ SwitchPane
    \/ Enter
    \/ Exit
    \/ TriggerTransfer
    \/ FsCreate
    \/ FsDelete
    \/ \E i \in DOMAIN workers : WorkerExecute(i)
    \/ \E i \in DOMAIN workers : WorkerSend(i)
    \/ Interrupt
    \/ Quit
    \/ CleanupTerminal
    \/ JoinHandle
    \/ MainReturns

Spec == Init /\ [][Next]_vars

---------------------------------------------------------------------------
\* The event loop tick by tick: the ticker arm on every tick, the keys that
\* switch the pane and trigger a transfer, and the workers.

InitLoop ==
    /\ show_hidden = FALSE
    /\ Constructed
    /\ scenario = "ticks"
    /\ overflow_checks = TRUE
    /\ disk = NoDisk
    /\ job = NoJob

NextLoop ==
    \/ DrawTick
    \/ RefreshTick
    \/ SwitchPane
    \/ TriggerTransfer
    \/ \E i \in DOMAIN workers : WorkerExecute(i)
    \/ \E i \in DOMAIN workers : WorkerSend(i)

SpecLoop == InitLoop /\ [][NextLoop]_vars

\* The ticker arm can be taken: the loop runs (a tick always moves the
\* counter, so the arm never stutters).
TickEnabled == status = "running" /\ CountsTicks

\* The ticker ticks for as long as the loop runs, and a thread that can take
\* a step takes it.  The first condition is WF_vars(DrawTick \/ RefreshTick)
\* written out, with TickEnabled for ENABLED <<DrawTick \/ RefreshTick>>_vars.
FairSpecLoop ==
    /\ SpecLoop
    /\ ([]<>~TickEnabled \/ []<><<DrawTick \/ RefreshTick>>_vars)
    /\ \A i \in 1..MaxLoopTransfers :
         /\ WF_vars(i \in DOMAIN workers /\ WorkerExecute(i))
         /\ WF_vars(i \in DOMAIN workers /\ WorkerSend(i))

\* The loop tick by tick, its end, and what main does after it.
NextExit ==
    \/ NextLoop
    \/ Interrupt
    \/ Quit
    \/ CleanupTerminal
    \/ JoinHandle
    \/ MainReturns

SpecExit == InitLoop /\ [][NextExit]_vars

\* A worker thread that can send does, and main, once it joins, goes on
\* whenever the thread it waits for has ended.
FairSpecExit ==
    /\ SpecExit
    /\ WF_vars(JoinHandle)
    /\ WF_vars(MainReturns)
    /\ \A i \in 1..MaxLoopTransfers : WF_vars(i \in DOMAIN workers /\ WorkerSend(i))

---------------------------------------------------------------------------
\* The transfer engine on its own (file_transfer.rs): Transfer::execute step
\* by step over two disks that hold what the entries are (regular file with
\* its bytes, directory, symbolic link with its target), with the calls the
\* environment lets fail and the time a remote mkdir takes to show.

\* The remote mkdir of a directory shows after at most this many sleeps of
\* the probing loop (the loop gives up after Tries).
MaxDelay == 6

\* for _ in 0..5: how many times the parent is probed before a file is
\* uploaded into it.
Tries == 5

NameTree == <<116>>            \* "t": the entry the transfer is made for

NameInner == <<99>>            \* "c": the file in the subdirectory B

NameLink == <<108>>            \* "l": a symbolic link in the tree

NameOutside == <<120>>         \* "x": a file beside the tree

NameOther == <<111>>           \* "o": a directory beside the tree

NameWork == <<119>>            \* "w": the working directory of the remote pane

NameBack == <<107>>            \* "k": a local directory to download back into

\* What is at a path.
File(bytes) == [kind |-> "file", bytes |-> bytes, target |-> <<>>]

Dir == [kind |-> "dir", bytes |-> <<>>, target |-> <<>>]

Symlink(target) == [kind |-> "symlink", bytes |-> <<>>, target |-> target]

\* The byte contents a source file has.
Contents == { <<>>, <<7>>, <<7, 0>> }

\* The bytes of a file that was at the destination before the transfer.
OldBytes == <<9>>

\* The working directories of the two panes: what `from` and `to` are joined to.
Cwd == [local |-> Root, remote |-> <<NameWork>>]

\* The disk d with n at path p.
Put(d, p, n) == (p :> n) @@ d

\* The path p with the symbolic links on it followed (a target is a path
\* without links), and with all but the last component followed.
RECURSIVE Real(_, _)
Real(d, p) ==
    IF p = Root THEN Root
    ELSE LET q == Push(Real(d, Pop(p)), FileName(p))
         IN  IF q \in DOMAIN d /\ d[q].kind = "symlink" THEN d[q].target ELSE q

LReal(d, p) == IF p = Root THEN Root ELSE Push(Real(d, Pop(p)), FileName(p))

\* Path::exists, Path::is_dir, Path::is_file (links followed) and
\* Path::is_symlink (the entry itself).
exists(d, p) == Real(d, p) \in DOMAIN d

is_dir(d, p) == exists(d, p) /\ d[Real(d, p)].kind = "dir"

is_file(d, p) == exists(d, p) /\ d[Real(d, p)].kind = "file"

is_symlink(d, p) == LReal(d, p) \in DOMAIN d /\ d[LReal(d, p)].kind = "symlink"

\* The paths fs::read_dir / sftp.readdir give for directory p: p joined with
\* the name of each entry.
Children(d, p) == { Push(p, FileName(q)) : q \in { r \in DOMAIN d : r # Root /\ Pop(r) = Real(d, p) } }

Reverse(s) == [i \in DOMAIN s |-> s[Len(s) + 1 - i]]

\* A listing that gives every entry twice.
ListedTwice(S, reversed) == Enumerate(S) \o Enumerate(S)

\* The entries in the order the backend gives them: some order, or its reverse.
Listed(S, reversed) == IF reversed THEN Reverse(Enumerate(S)) ELSE Enumerate(S)

\* The call `op` on path p is the one the environment lets fail.
Fails(x, op, p) == x.fault = [op |-> op, path |-> p]

NoFault == [op |-> "none", path |-> Root]

\* The state of a run of execute: the two disks, the remote mkdir commands
\* that have not shown yet, the sleeps so far, the destination files whose
\* creation failed, the calls that failed, the source entries the run has
\* come to, in order, and how the run ended ("run" while it has not).
Start(d) ==
    [local |-> d.local, remote |-> d.remote, pending |-> <<>>, clock |-> 0,
     skipped |-> {}, failed |-> {}, visited |-> <<>>, end |-> "run", cause |-> ""]

\* The run comes to the source entry p, to copy it or to recurse into it.
Visit(e, p) == [e EXCEPT !.visited = Append(@, p)]

Err(e, cause) == [e EXCEPT !.end = "Err", !.cause = cause]

Hit(e, op, p) == [e EXCEPT !.failed = @ \cup {[op |-> op, path |-> p]}]

\* The remote mkdir commands whose time has come take effect, in the order
\* they were given: `mkdir p` makes p when p is not there and its parent is a
\* directory, unless it is the command that fails.
RECURSIVE Settle(_, _, _)
Settle(e, x, all) ==
    IF e.pending = <<>> \/ (~all /\ e.pending[1].due > e.clock) THEN e
    ELSE LET p == e.pending[1].path
             rest == [e EXCEPT !.pending = Tail(@)]
         IN  IF Fails(x, "mkdir", p)
             THEN Settle(Hit(rest, "mkdir", p), x, all)
             ELSE IF ~exists(e.remote, p) /\ is_dir(e.remote, Pop(p))
             THEN Settle([rest EXCEPT !.remote = Put(@, p, Dir)], x, all)
             ELSE Settle(rest, x, all)

\* thread::sleep(Duration::from_millis(5)).
sleep(e, x) == Settle([e EXCEPT !.clock = @ + 1], x, FALSE)

\* The loop before the upload of a file: the parent is probed up to n more
\* times, with a sleep after each probe that fails.
RECURSIVE probe(_, _, _, _)
probe(e, x, parent, n) ==
    IF n = 0 \/ is_dir(e.remote, parent) THEN e
    ELSE probe(sleep(e, x), x, parent, n - 1)

\* A file can be created at p: its parent is a directory, p is no directory,
\* and the creation is not the call that fails.
CanCreateFile(d, x, p) ==
    /\ p # Root
    /\ is_dir(d, Pop(p))
    /\ ~is_dir(d, p)
    /\ ~Fails(x, "create", p)

\* file_transfer::upload_file.
upload_file(from, to, e, x) ==
    IF CanCreateFile(e.remote, x, to)
    THEN LET unread == Fails(x, "read", from)
             data == IF unread THEN <<>> ELSE e.local[Real(e.local, from)].bytes
             e1 == IF unread THEN Hit(e, "read", from) ELSE e
         IN  IF Fails(x, "write", to)
             THEN Err(Hit([e1 EXCEPT !.remote = Put(@, Real(@, to), File(<<>>))], "write", to),
                      "write_all")
             ELSE [e1 EXCEPT !.remote = Put(@, Real(@, to), File(data))]
    ELSE Hit([e EXCEPT !.skipped = @ \cup {to}], "create", to)

\* file_transfer::upload_directory_recursive, and its for loop from entry k
\* of bufs on.
RECURSIVE upload_directory_recursive(_, _, _, _)
RECURSIVE upload_entries(_, _, _, _, _)
upload_directory_recursive(from, to, e, x) ==
    IF Fails(x, "channel", to)
    THEN Err(Hit(e, "channel", to), "channel_session")
    ELSE LET e1 == Settle([e EXCEPT !.pending =
                              Append(@, [path |-> to, due |-> e.clock + x.delay])],
                          x, FALSE)
         IN  IF Fails(x, "list", from)
             THEN [Hit(e1, "list", from) EXCEPT !.end = "panic"]
             ELSE upload_entries(
                      Listed({ b \in Children(e1.local, from) : exists(e1.local, b) },
                             x.reversed),
                      1, to, e1, x)

upload_entries(bufs, k, to, e, x) ==
    IF k > Len(bufs) \/ e.end # "run" THEN e
    ELSE LET entry == bufs[k]
             new_target_buf == Push(to, FileName(entry))
         IN  IF is_symlink(e.local, entry)
             THEN upload_entries(bufs, k + 1, to, e, x)
             ELSE IF is_dir(e.local, entry)
             THEN upload_entries(bufs, k + 1, to,
                                 upload_directory_recursive(entry, new_target_buf,
                                                            Visit(e, entry), x), x)
             ELSE upload_entries(bufs, k + 1, to,
                                 upload_file(entry, new_target_buf,
                                             probe(Visit(e, entry), x, Pop(new_target_buf),
                                                   Tries), x),
                                 x)

\* file_transfer::upload.
Upload(t, e, x) ==
    IF is_dir(e.local, t.from)
    THEN upload_directory_recursive(t.from, t.to, Visit(e, t.from), x)
    ELSE upload_file(t.from, t.to, Visit(e, t.from), x)

\* download_file with a failure of fs::File::create that is returned as an
\* error.
download_file_create_error(from, to, e, x) ==
    IF CanCreateFile(e.local, x, to)
    THEN LET made == [e EXCEPT !.local = Put(@, Real(@, to), File(<<>>))]
         IN  IF Fails(x, "stat", from)
             THEN Err(Hit(made, "stat", from), "stat")
             ELSE IF Fails(x, "read", from)
             THEN Err(Hit(made, "read", from), "read_to_end")
             ELSE IF Fails(x, "write", to)
             THEN Err(Hit(made, "write", to), "write_all")
             ELSE [e EXCEPT !.local =
                      Put(@, Real(@, to), File(e.remote[Real(e.remote, from)].bytes))]
    ELSE Err(Hit([e EXCEPT !.skipped = @ \cup {to}], "create", to), "create")

\* file_transfer::download_file, for the remote file opened at `from`.
download_file(from, to, e, x) ==
    IF CanCreateFile(e.local, x, to)
    THEN LET made == [e EXCEPT !.local = Put(@, Real(@, to), File(<<>>))]
         IN  IF Fails(x, "stat", from)
             THEN Err(Hit(made, "stat", from), "stat")
             ELSE IF Fails(x, "read", from)
             THEN Err(Hit(made, "read", from), "read_to_end")
             ELSE IF Fails(x, "write", to)
             THEN Err(Hit(made, "write", to), "write_all")
             ELSE [e EXCEPT !.local =
                      Put(@, Real(@, to), File(e.remote[Real(e.remote, from)].bytes))]
    ELSE Hit([e EXCEPT !.skipped = @ \cup {to}], "create", to)

\* file_transfer::download_directory_recursive, and its for loop from entry k
\* of readdir_info on.
RECURSIVE download_directory_recursive(_, _, _, _)
RECURSIVE download_entries(_, _, _, _, _)
download_directory_recursive(from, to, e, x) ==
    IF Fails(x, "mkdir", to)
    THEN Hit(e, "mkdir", to)
    ELSE IF to # Root /\ LReal(e.local, to) \notin DOMAIN e.local /\ is_dir(e.local, Pop(to))
    THEN LET e1 == [e EXCEPT !.local = Put(@, LReal(@, to), Dir)]
         IN  IF Fails(x, "list", from)
             THEN Hit(e1, "list", from)
             ELSE download_entries(Listed(Children(e1.remote, from), x.reversed),
                                   1, to, e1, x)
    ELSE e

\* The for loop of download_directory_recursive without its `continue` for a
\* symbolic link: the link is opened and copied like a file.
RECURSIVE download_entries_copies_links(_, _, _, _, _)
download_entries_copies_links(readdir_info, k, to, e, x) ==
    IF k > Len(readdir_info) \/ e.end # "run" THEN e
    ELSE LET entry == readdir_info[k]
             new_target == Push(to, FileName(entry))
         IN  IF ~is_symlink(e.remote, entry) /\ is_dir(e.remote, entry)
             THEN download_entries_copies_links(readdir_info, k + 1, to,
                                   download_directory_recursive(entry, new_target,
                                                                Visit(e, entry), x), x)
             ELSE IF Fails(x, "open", entry)
             THEN Err(Hit(Visit(e, entry), "open", entry), "open")
             ELSE IF ~exists(e.remote, entry)
             THEN Err(Visit(e, entry), "open")
             ELSE download_entries_copies_links(readdir_info, k + 1, to,
                                   download_file(entry, new_target, Visit(e, entry), x), x)

download_entries(readdir_info, k, to, e, x) ==
    IF k > Len(readdir_info) \/ e.end # "run" THEN e
    ELSE LET entry == readdir_info[k]
             new_target == Push(to, FileName(entry))
         IN  IF is_symlink(e.remote, entry)
             THEN download_entries(readdir_info, k + 1, to, e, x)
             ELSE IF is_dir(e.remote, entry)
             THEN download_entries(readdir_info, k + 1, to,
                                   download_directory_recursive(entry, new_target,
                                                                Visit(e, entry), x), x)
             ELSE IF Fails(x, "open", entry)
             THEN Err(Hit(Visit(e, entry), "open", entry), "open")
             ELSE download_entries(readdir_info, k + 1, to,
                                   download_file(entry, new_target, Visit(e, entry), x), x)

\* file_transfer::download.
Download(t, e, x) ==
    IF Fails(x, "open", t.from)
    THEN Err(Hit(e, "open", t.from), "open")
    ELSE IF ~exists(e.remote, t.from)
    THEN Err(e, "open")
    ELSE IF Fails(x, "stat", t.from)
    THEN [Hit(e, "stat", t.from) EXCEPT !.end = "panic"]
    ELSE IF is_file(e.remote, t.from)
    THEN download_file(t.from, t.to, Visit(e, t.from), x)
    ELSE download_directory_recursive(t.from, t.to, Visit(e, t.from), x)

\* Transfer::execute on the disks d with the environment's answers x; then
\* the remote mkdir commands still to show take effect.
Execute(t, d, x) ==
    LET e == IF t.kind = "Download" THEN Download(t, Start(d), x) ELSE Upload(t, Start(d), x)
        landed == Settle(e, x, TRUE)
    IN  [landed EXCEPT !.end = IF @ = "run" THEN "Ok" ELSE @]

\* The transfer made for the entry NameTree of the source pane.
TransferOf(kind) ==
    IF kind = "Upload"
    THEN [kind |-> kind, from |-> Push(Cwd.local, NameTree), to |-> Push(Cwd.remote, NameTree)]
    ELSE [kind |-> kind, from |-> Push(Cwd.remote, NameTree), to |-> Push(Cwd.local, NameTree)]

\* The two disks without the entry to transfer: the working directories, the
\* local directory to download back into, and on side `src` a file and a
\* directory with a file beside where the tree will be.
BaseDisk(src) ==
    LET plain == [local |-> Put(Put(<<>>, Root, Dir), <<NameBack>>, Dir),
                  remote |-> Put(Put(<<>>, Root, Dir), Cwd.remote, Dir)]
        c == Cwd[src]
    IN  [plain EXCEPT ![src] =
            Put(Put(Put(@, Push(c, NameOutside), File(<<5>>)),
                    Push(c, NameOther), Dir),
                Push(Push(c, NameOther), NameFile), File(<<6>>))]

\* The disk d with, at s, the entry to transfer: a regular file (top "file",
\* with the bytes Some(a)), a symbolic link to the directory beside it (top
\* "link"), or a directory (top "dir") that holds the file a unless a is
\* None, the subdirectory B when b is "empty" or "full" (then with the file
\* c in it), and the link l when l is not "none": to B, to the file beside the
\* tree, or to the tree itself.
WithSource(d, c, s, top, a, b, l) ==
    IF top = "file" THEN Put(d, s, File(a[1]))
    ELSE IF top = "link" THEN Put(d, s, Symlink(Push(c, NameOther)))
    ELSE LET d0 == Put(d, s, Dir)
             d1 == IF a = None THEN d0 ELSE Put(d0, Push(s, NameFile), File(a[1]))
             d2 == IF b = "none" THEN d1 ELSE Put(d1, Push(s, NameDir), Dir)
             d3 == IF b = "full"
                   THEN Put(d2, Push(Push(s, NameDir), NameInner), File(<<8, 8>>))
                   ELSE d2
         IN  CASE l = "none" -> d3
               [] l = "toB" -> Put(d3, Push(s, NameLink), Symlink(Push(s, NameDir)))
               [] l = "toX" -> Put(d3, Push(s, NameLink), Symlink(Push(c, NameOutside)))
               [] l = "toTree" -> Put(d3, Push(s, NameLink), Symlink(s))

\* The shapes of the entry to transfer.
Shapes ==
    [top : {"file"}, a : { Some(c) : c \in Contents }, b : {"none"}, l : {"none"}]
    \cup [top : {"link"}, a : {None}, b : {"none"}, l : {"none"}]
    \cup [top : {"dir"}, a : {None} \cup { Some(c) : c \in Contents }, b : {"none", "empty", "full"},
          l : {"none", "toB", "toX", "toTree"}]

\* The two disks for a transfer of the given kind and shape; with pre, the
\* destination is there before the transfer (a file with other bytes for a
\* file, an empty directory otherwise).
DiskFor(kind, shape, pre) ==
    LET src == IF kind = "Upload" THEN "local" ELSE "remote"
        dst == IF kind = "Upload" THEN "remote" ELSE "local"
        t == TransferOf(kind)
        d == BaseDisk(src)
        d1 == [d EXCEPT ![src] = WithSource(@, Cwd[src], t.from, shape.top, shape.a,
                                            shape.b, shape.l)]
    IN  IF pre
        THEN [d1 EXCEPT ![dst] = Put(@, t.to, IF shape.top = "file" THEN File(OldBytes)
                                                                    ELSE Dir)]
        ELSE d1

\* A transfer is given to the engine, over disks made for it.
InitEngine ==
    /\ show_hidden = FALSE
    /\ Constructed
    /\ scenario = "engine"
    /\ overflow_checks = TRUE
    /\ \E kind \in {"Upload", "Download"}, shape \in Shapes, pre \in BOOLEAN :
         /\ disk = DiskFor(kind, shape, pre)
         /\ job = [phase |-> "given", transfer |-> TransferOf(kind), before |-> disk]

\* The calls the environment can let fail, and the paths they are made on:
\* the entry and what can be below it, at the source or at the destination.
SourceOps == {"read", "stat", "open", "list"}

DestOps == {"create", "write", "channel", "mkdir"}

Below == { <<>>, <<NameFile>>, <<NameDir>>, <<NameDir, NameInner>> }

Faults(from, to) ==
    {NoFault}
    \cup { [op |-> op, path |-> from \o r] : op \in SourceOps, r \in Below }
    \cup { [op |-> op, path |-> to \o r] : op \in DestOps, r \in Below }

\* What the environment answers to a run of transfer t: at most one call
\* fails, a remote mkdir shows after `delay` sleeps, and directories are
\* listed in some order or its reverse.
Answers(t, d) ==
    LET src == IF t.kind = "Upload" THEN d.local ELSE d.remote
        tree == is_dir(src, t.from)
    IN  [fault : Faults(t.from, t.to),
         delay : IF tree /\ t.kind = "Upload" THEN 0..MaxDelay ELSE {0},
         reversed : IF tree THEN BOOLEAN ELSE {FALSE}]

\* A worker runs transfer.execute() to its end; the answer x is one whose
\* failing call was made.
EngineExecute ==
    /\ scenario = "engine"
    /\ job.phase = "given"
    /\ \E x \in Answers(job.transfer, disk) :
         LET e == Execute(job.transfer, disk, x) IN
           /\ x.fault = NoFault \/ x.fault \in e.failed
           /\ disk' = [local |-> e.local, remote |-> e.remote]
           /\ job' = [phase |-> "ended", transfer |-> job.transfer, before |-> job.before,
                      x |-> x, end |-> e.end, cause |-> e.cause, skipped |-> e.skipped,
                      visited |-> e.visited]
    /\ UNCHANGED <<buf, content, state, show_hidden, transfers, status, overflow_checks,
                   fs, fs_changes, scenario, spawned, trip, ui>>

\* After the upload of a regular file, the remote file it left is downloaded
\* into the local directory NameBack by a second transfer.
EngineDownloadBack ==
    /\ scenario = "engine"
    /\ job.phase = "ended"
    /\ job.transfer.kind = "Upload"
    /\ ~is_symlink(disk.local, job.transfer.from)
    /\ is_file(disk.local, job.transfer.from)
    /\ exists(disk.remote, job.transfer.to)
    /\ LET t2 == [kind |-> "Download", from |-> job.transfer.to,
                  to |-> Push(<<NameBack>>, FileName(job.transfer.to))]
       IN  \E x \in Answers(t2, disk) :
             LET e == Execute(t2, disk, x) IN
               /\ x.fault = NoFault \/ x.fault \in e.failed
               /\ disk' = [local |-> e.local, remote |-> e.remote]
               /\ job' = [phase |-> "back", transfer |-> t2, before |-> job.before,
                          x |-> x, end |-> e.end, cause |-> e.cause,
                          skipped |-> e.skipped, visited |-> e.visited, first |-> job]
    /\ UNCHANGED <<buf, content, state, show_hidden, transfers, status, overflow_checks,
                   fs, fs_changes, scenario, spawned, trip, ui>>

NextEngine ==
    \/ EngineExecute
    \/ EngineDownloadBack

SpecEngine == InitEngine /\ [][NextEngine]_vars

\* EngineExecute can be taken: a transfer is given (the answer with no
\* failing call is among the answers, and the step changes job).
ExecuteEnabled == scenario = "engine" /\ job.phase = "given"

\* The steps of EngineExecute, told by what they do to job: no other step of
\* NextEngine starts with a transfer that is given.
ExecuteStep == scenario = "engine" /\ job.phase = "given" /\ job'.phase = "ended"

\* The worker thread that was spawned for the transfer is scheduled: this is
\* WF_vars(EngineExecute) written out, with ExecuteEnabled for
\* ENABLED <<EngineExecute>>_vars and ExecuteStep for <<EngineExecute>>_vars.
FairSpecEngine ==
    SpecEngine /\ ([]<>~ExecuteEnabled \/ []<><<ExecuteStep>>_vars)

---------------------------------------------------------------------------
\* The loop of upload_directory_recursive before the upload of one file,
\* followed step by step: the upload of the directory NameTree has given its
\* mkdir command and has come to the file NameFile of the directory.

\* The engine variables at the start of the for loop over the probes.
InitRetry ==
    /\ show_hidden = FALSE
    /\ Constructed
    /\ scenario = "retry"
    /\ overflow_checks = TRUE
    /\ \E c \in Contents, pre \in BOOLEAN :
         LET t == TransferOf("Upload")
             d == DiskFor("Upload", [top |-> "dir", a |-> Some(c), b |-> "none", l |-> "none"],
                          pre)
         IN  \E x \in Answers(t, d) :
               LET e == Settle([Start(d) EXCEPT !.pending =
                                   Append(@, [path |-> t.to, due |-> x.delay])],
                               x, FALSE)
               IN  /\ x.fault \in {NoFault, [op |-> "mkdir", path |-> t.to],
                                   [op |-> "create", path |-> Push(t.to, NameFile)],
                                   [op |-> "write", path |-> Push(t.to, NameFile)],
                                   [op |-> "read", path |-> Push(t.from, NameFile)]}
                   /\ disk = [local |-> e.local, remote |-> e.remote]
                   /\ job = [phase |-> "loop", i |-> 0, e |-> e, x |-> x,
                             entry |-> Push(t.from, NameFile),
                             new_target_buf |-> Push(t.to, NameFile),
                             wrote |-> FALSE]

\* What a step of the loop leaves alone.
RetryFrame ==
    UNCHANGED <<buf, content, state, show_hidden, transfers, status, overflow_checks,
                fs, fs_changes, scenario, spawned, trip, ui>>

\* The engine variables after a step that leaves the run in state e.
RetryStep(phase, i, e, wrote) ==
    /\ disk' = [local |-> e.local, remote |-> e.remote]
    /\ job' = [job EXCEPT !.phase = phase, !.i = i, !.e = e, !.wrote = wrote]
    /\ RetryFrame

\* sftp.opendir(parent).is_err(): sleep 5 ms and continue.
ProbeFails ==
    /\ scenario = "retry"
    /\ job.phase = "loop"
    /\ job.i < Tries
    /\ ~is_dir(job.e.remote, Pop(job.new_target_buf))
    /\ RetryStep("loop", job.i + 1, sleep(job.e, job.x), FALSE)

\* sftp.opendir(parent) is Ok: break.
ProbeOk ==
    /\ scenario = "retry"
    /\ job.phase = "loop"
    /\ job.i < Tries
    /\ is_dir(job.e.remote, Pop(job.new_target_buf))
    /\ RetryStep("write", job.i, job.e, FALSE)

\* A loop that ends at once, with an error, when its range is used up.
LoopExhaustedGivesUp ==
    /\ scenario = "retry"
    /\ job.phase = "loop"
    /\ job.i = Tries
    /\ RetryStep("done", job.i, Err(job.e, "opendir"), FALSE)

\* The range 0..5 is used up: the for loop ends.
LoopExhausted ==
    /\ scenario = "retry"
    /\ job.phase = "loop"
    /\ job.i = Tries
    /\ RetryStep("write", job.i, job.e, FALSE)

\* upload_file(buf, &new_target_buf, sftp)?.
WriteFile ==
    /\ scenario = "retry"
    /\ job.phase = "write"
    /\ RetryStep("done", job.i, upload_file(job.entry, job.new_target_buf, job.e, job.x), TRUE)

NextRetry ==
    \/ ProbeFails
    \/ ProbeOk
    \/ LoopExhausted
    \/ WriteFile

SpecRetry == InitRetry /\ [][NextRetry]_vars

\* The worker thread is scheduled as long as it has a step to take.
FairSpecRetry == SpecRetry /\ WF_vars(NextRetry)

---------------------------------------------------------------------------
\* What the claims are stated with.

Running == status = "running"

\* The selection of pane a is Some(i) with 0 <= i < len(listing).
InBounds(a) == state[a] # None /\ state[a][1] >= 0 /\ state[a][1] < Len(content[a])

\* The listing of pane a is empty.
Empty(a) == content[a] = <<>>

\* The path of the entry selected in pane a (for a selection within bounds).
SelectedPath(a) == Push(buf[a], content[a][state[a][1] + 1])

\* The names a fresh listing of directory p on side a shows.
ShownNames(a, p, hidden) ==
    { FileName(q) : q \in { e \in Entries(fs[a], p) : hidden \/ ~StartsWithDot(FileName(e)) } }

\* The sequence s lists exactly the names of S, each once.
Lists(s, S) == { s[k] : k \in DOMAIN s } = S /\ Len(s) = Cardinality(S)

---------------------------------------------------------------------------
\* C1: in every state of the running event loop, a pane whose listing is not
\* empty has a selection Some(i) with 0 <= i < len(listing).
C1_SelectionInBounds ==
    Running => \A a \in Sides : ~Empty(a) => InBounds(a)

\* C2: move_down, move_up, jump_top and jump_bottom, applied when the active
\* listing is not empty (also when it was replaced by a shorter one since the
\* index was set), leave the active pane's index in [0, len-1]; switch_pane
\* writes no index.
C2_NavigationStaysInBounds ==
    [][ /\ ((MoveDown \/ MoveUp \/ JumpTop \/ JumpBottom) /\ ~Empty(ActivePane))
           => (status' = "running" /\ InBounds(ActivePane)')
        /\ SwitchPane => (state'.local = state.local /\ state'.remote = state.remote)
      ]_vars

\* C3: enter on an active pane whose listing is empty is a no-op, in the local
\* and in the remote pane: working dirs, listings and selection are unchanged
\* and nothing is indexed out of bounds (no panic).
C3_EnterOnEmptyIsNoOp ==
    [][ (Enter /\ Empty(ActivePane))
        => (UNCHANGED <<buf, content, state>> /\ status' = "running") ]_vars

\* C4: triggering a transfer while the active listing is empty is a no-op: no
\* panic, no transfer request, no worker, no completion channel.
C4_TransferOnEmptyIsNoOp ==
    [][ (TriggerTransfer /\ Empty(ActivePane))
        => (status' = "running" /\ transfers' = transfers
            /\ UNCHANGED <<buf, content, state>>) ]_vars

\* C5: jump_top sets the active index to 0 and jump_bottom sets it to len-1;
\* on an empty active listing both are no-ops (no len-1 underflow).
C5_Jumps ==
    [][ /\ JumpTop =>
             IF Empty(ActivePane) THEN UNCHANGED state /\ status' = "running"
             ELSE state' = [state EXCEPT ![ActivePane] = Some(0)]
        /\ JumpBottom =>
             IF Empty(ActivePane) THEN UNCHANGED state /\ status' = "running"
             ELSE /\ status' = "running"
                  /\ state' = [state EXCEPT ![ActivePane] = Some(Len(content[ActivePane]) - 1)]
      ]_vars

\* min(i + 1, len - 1) over the integers, for len > 0 (written without i + 1,
\* which the model checker cannot hold for i = usize::MAX).
MinSucc(i, len) == IF i >= len - 1 THEN len - 1 ELSE i + 1

\* C6: move_down leaves the selection unchanged when the active listing is
\* empty; otherwise the active index becomes min(index+1, len-1).
C6_MoveDown ==
    [][ MoveDown =>
          IF Empty(ActivePane) THEN UNCHANGED state /\ status' = "running"
          ELSE /\ status' = "running"
               /\ state' = [state EXCEPT ![ActivePane] =
                               Some(MinSucc(state[ActivePane][1], Len(content[ActivePane])))]
      ]_vars

\* C7: move_up leaves the selection unchanged when the active listing is
\* empty; otherwise the active index becomes max(index-1, 0).
C7_MoveUp ==
    [][ MoveUp =>
          IF Empty(ActivePane) THEN UNCHANGED state /\ status' = "running"
          ELSE /\ status' = "running"
               /\ state' = [state EXCEPT ![ActivePane] =
                               Some(IF state[ActivePane][1] - 1 > 0
                                    THEN state[ActivePane][1] - 1 ELSE 0)]
      ]_vars

\* C8: switch_pane toggles active between Local and Remote, changes neither
\* selection index, and applied a second time gives back the original active.
C8_SwitchPane ==
    [][ SwitchPane =>
          /\ state.active \in {"Local", "Remote"}
          /\ state'.active \in {"Local", "Remote"}
          /\ state'.active # state.active
          /\ state'.local = state.local
          /\ state'.remote = state.remote
          /\ switch_active(state'.active) = state.active
      ]_vars

\* C8 witness: the remote pane is active (the switch has acted) and the local
\* index, moved before the switch, is still where it was.
C8_Witness ==
    Running /\ state.active = "Remote" /\ state.local = Some(1) /\ state.remote = Some(0)

\* C9: enter on a selected entry that is not a directory leaves the working
\* dirs as they are and raises no error, in the local and in the remote pane.
C9_EnterNonDirectory ==
    [][ (Enter /\ InBounds(ActivePane) /\ ~IsDirIn(fs[ActivePane], SelectedPath(ActivePane)))
        => (buf' = buf /\ status' = "running") ]_vars

\* Enter on a selected entry that is a directory, and one that can be listed.
EnterDirectory ==
    Enter /\ InBounds(ActivePane) /\ IsDirIn(fs[ActivePane], SelectedPath(ActivePane))

EnterListableDirectory ==
    Enter /\ InBounds(ActivePane) /\ CanReadDir(fs[ActivePane], SelectedPath(ActivePane))

\* The part of C10 that holds: the working dir becomes working_dir/entry and
\* the listing a fresh listing of it.
EntersSelected(a) ==
    /\ status' = "running"
    /\ buf' = [buf EXCEPT ![a] = SelectedPath(a)]
    /\ Lists(content'[a], ShownNames(a, SelectedPath(a), show_hidden))

---------------------------------------------------------------------------
\* Exit on the pane whose working dir has a parent that can be listed.
ExitToListable == Exit /\ CanReadDir(fs[ActivePane], Pop(buf[ActivePane]))

\* The part of C11 that holds: the working dir becomes its parent (the root
\* stays the root) and the listing a fresh listing of the parent.
ExitsToParent(a) ==
    /\ status' = "running"
    /\ buf' = [buf EXCEPT ![a] = IF buf[a] = Root THEN Root ELSE Pop(buf[a])]
    /\ Lists(content'[a], ShownNames(a, Pop(buf[a]), show_hidden))

---------------------------------------------------------------------------
\* The names a listing holds.
Names(s) == { s[k] : k \in DOMAIN s }

\* Exit handled right after a successful enter of the same pane, the
\* filesystem being as it was at the enter.
ExitAfterEnter ==
    Exit /\ trip # <<>> /\ trip.phase = "entered" /\ trip.pane = ActivePane

\* The listing the pane had before the enter showed the directory as it was
\* at the enter.
UpToDateBeforeEnter ==
    Names(trip.listing) = { n \in trip.entries : show_hidden \/ ~StartsWithDot(n) }

\* C12 as claimed: a successful enter into a directory followed immediately
\* by exit, with no change of the filesystem in between, restores the original
\* working_dir and yields a listing with the same set of names as before the
\* enter.
C12_RoundTripAsClaimed ==
    [][ ExitAfterEnter =>
          /\ status' = "running"
          /\ buf'[ActivePane] = trip.buf
          /\ Names(content'[ActivePane]) = Names(trip.listing)
      ]_vars

\* C12 as amended: a successful enter into a directory followed immediately
\* by exit, with no change of the filesystem in between, restores the original
\* working_dir and yields a fresh listing of it; the listing has the same set
\* of names as before the enter if the listing before the enter showed the
\* directory as it was at the enter.
C12_RoundTrip ==
    [][ ExitAfterEnter =>
          /\ status' = "running"
          /\ buf'[ActivePane] = trip.buf
          /\ Lists(content'[ActivePane], ShownNames(ActivePane, trip.buf, show_hidden))
          /\ UpToDateBeforeEnter => Names(content'[ActivePane]) = Names(trip.listing)
      ]_vars

\* C12 witness: the remote pane has entered a directory and come back by the
\* exit handled next; it lists again what it listed before the enter.
C12_Witness ==
    /\ Running
    /\ trip # <<>>
    /\ trip.phase = "returned"
    /\ trip.pane = "remote"
    /\ buf.remote = trip.buf
    /\ Names(content.remote) = Names(trip.listing)
    /\ content.remote # <<>>

---------------------------------------------------------------------------
\* C13: a transfer request is a snapshot taken at trigger time: its source is
\* (active pane's working_dir)/(selected entry name), its destination is
\* (other pane's working_dir)/(same entry name), its direction is Upload when
\* Local is active and Download when Remote is active; no later step (cursor
\* movement, enter/exit, pane switch, refresh, worker step) changes the
\* request of a transfer.
C13_TransferSnapshot ==
    [][ /\ \A i \in DOMAIN transfers :
             i \in DOMAIN transfers' /\ transfers'[i] = transfers[i]
        /\ transfers' # transfers =>
             /\ TriggerTransfer
             /\ InBounds(ActivePane)
             /\ transfers' = Append(transfers,
                   [kind |-> IF state.active = "Local" THEN "Upload" ELSE "Download",
                    from |-> buf[ActivePane] \o <<content[ActivePane][state[ActivePane][1] + 1]>>,
                    to |-> buf[OtherPane(ActivePane)]
                             \o <<content[ActivePane][state[ActivePane][1] + 1]>>])
      ]_vars

\* C13 witness: an upload of B/.h, triggered while the local pane was in B and
\* the remote pane in the root, is in flight (its worker has not run yet); the
\* local pane has since gone back to the root and the remote pane is active
\* with its cursor moved.  The request still names B/.h and /.h.
C13_Witness ==
    /\ Running
    /\ Len(transfers) = 1
    /\ workers[1].pc = "spawned"
    /\ transfers[1] = [kind |-> "Upload", from |-> <<NameDir, NameHidden>>, to |-> <<NameHidden>>]
    /\ buf.local = Root
    /\ state.active = "Remote"
    /\ state.remote = Some(1)

---------------------------------------------------------------------------
\* The thread of worker i has ended (it returned or it panicked).
Ended(i) == workers[i].pc \in {"sent", "panicked"}

\* C14: for every spawned transfer worker exactly one completion message is
\* sent on its channel, whether the transfer succeeds or fails at any step:
\* never more than one, and one by the time the worker's thread has ended.
C14_ExactlyOneMessage ==
    \A i \in DOMAIN workers :
        /\ workers[i].sends <= 1
        /\ Ended(i) => workers[i].sends = 1

---------------------------------------------------------------------------
\* The process has terminated after the loop was left by quit or interrupt:
\* main returned, or panicked in a join.
TerminatedAfterLoop ==
    status \in {"exit: Ok", "exit: Err(cleanup_terminal)", "panic: handle.join().unwrap()"}

\* C15: after the event loop exits by quit or interrupt, the process does not
\* terminate before every spawned transfer worker has run to its end: when it
\* has terminated, no worker is left that was cut off before its thread ended.
C15_WorkersJoinedBeforeExit ==
    TerminatedAfterLoop => \A i \in DOMAIN workers : Ended(i)

---------------------------------------------------------------------------
\* C16: the event loop terminates on receipt of any interrupt message and on a
\* quit key, whatever the navigation state and however many transfers are in
\* flight (a step that handles one leaves the loop), and no other event
\* terminates it (a step that ends the running loop handles one of the two).
C16_LoopEndsOnlyOnQuitOrInterrupt ==
    [][ /\ (Interrupt \/ Quit) => status' = "left_loop"
        /\ (status = "running" /\ status' # "running") => (Interrupt \/ Quit)
      ]_vars

---------------------------------------------------------------------------
\* The navigation state: working dirs, listings, selection with the active
\* pane, and the hidden-file flag.
navigation == <<buf, content, state, show_hidden>>

\* A step of a transfer worker.
WorkerStep == \E i \in DOMAIN workers : WorkerExecute(i) \/ WorkerSend(i)

\* A step of the event loop that can write the navigation state.
LoopStep ==
    \/ RefreshTick \/ ToggleHidden \/ MoveDown \/ MoveUp \/ JumpTop \/ JumpBottom
    \/ SwitchPane \/ Enter \/ Exit \/ TriggerTransfer

---------------------------------------------------------------------------
\* The working dir of pane a cannot be listed: it is gone or cannot be read.
Unlistable(a) == ~CanReadDir(fs[a], buf[a])

\* After a re-list of pane a that failed, the loop runs and the pane shows an
\* empty listing or the one it showed before.
Degrades(a) == status' = "running" /\ content'[a] \in {<<>>, content[a]}

\* C18: when re-listing a pane's directory fails after startup (on a refresh
\* tick, a hidden-file toggle, or the re-list after enter, exit or transfer
\* trigger, for the local or the remote pane), the pane's listing degrades to
\* an empty or the previous list and the event loop continues; the failure
\* never panics or terminates the loop.
C18_RelistFailureDegrades ==
    [][ /\ (RefreshTick \/ ToggleHidden) =>
             \A a \in Sides : Unlistable(a) => Degrades(a)
        /\ (Enter /\ InBounds(ActivePane)
                  /\ IsDirIn(fs[ActivePane], SelectedPath(ActivePane))
                  /\ ~CanReadDir(fs[ActivePane], SelectedPath(ActivePane)))
             => Degrades(ActivePane)
        /\ (Exit /\ ~CanReadDir(fs[ActivePane], Pop(buf[ActivePane])))
             => Degrades(ActivePane)
        /\ (TriggerTransfer /\ InBounds(ActivePane) /\ Unlistable(OtherPane(ActivePane)))
             => Degrades(OtherPane(ActivePane))
      ]_vars

---------------------------------------------------------------------------
\* No listing holds a name starting with '.'.
NoHiddenListed == \A a \in Sides : \A k \in DOMAIN content[a] : ~StartsWithDot(content[a][k])

\* C19: whenever show_hidden is false, neither pane's listing contains a name
\* starting with '.'; a hidden-file toggle re-lists both panes with the new
\* flag in the same step, so this holds in the state right after the toggle
\* as well.
C19_HiddenFilter ==
    /\ [](Running /\ ~show_hidden => NoHiddenListed)
    /\ [][ (ToggleHidden /\ status' = "running") =>
              /\ show_hidden' = ~show_hidden
              /\ \A a \in Sides : Lists(content'[a], ShownNames(a, buf[a], show_hidden'))
          ]_vars

\* C19 witness: an upload of the hidden file .h was triggered while hidden
\* files were shown; they have since been toggled off, and both panes, still
\* in the directories that hold .h, list only the other names.
C19_Witness ==
    /\ Running
    /\ ~show_hidden
    /\ Len(transfers) = 1
    /\ transfers[1].from = <<NameHidden>>
    /\ buf = [local |-> Root, remote |-> Root]
    /\ <<NameHidden>> \in fs.local /\ <<NameHidden>> \in fs.remote
    /\ content.local = <<NameFile, NameDir>>
    /\ content.remote = <<NameDir, NameLocked, NameFile>>

---------------------------------------------------------------------------
\* The listing s is in case-insensitive order: no name comes before a name
\* that is smaller ignoring case (a stable case-insensitive sort leaves it as
\* it is).
SortedIgnoringCase(s) ==
    /\ \A k, l \in DOMAIN s : k < l => ~NameLess(s[l], s[k], TRUE)
    /\ StableSort(s, TRUE) = s

\* C20: every listing produced for either backend (local filesystem or remote
\* session) is sorted case-insensitively, names equal ignoring case keeping
\* their enumeration order: e.g. the entries a, B list as [a, B].
C20_ListingsSortedIgnoringCase ==
    Running => \A a \in Sides : SortedIgnoringCase(content[a])

---------------------------------------------------------------------------
\* C27: a tick on which ticks_elapsed does not wrap to 0 only redraws: it
\* leaves both working dirs, both listings, both selection indices, the active
\* pane, show_hidden and the registered completion channels (and what they
\* hold, the counter of the messages received, the notice) as they were, and
\* the loop goes on.
C27_DrawTickOnlyRedraws ==
    [][ DrawTick =>
          /\ UNCHANGED <<buf, content, state, show_hidden>>
          /\ UNCHANGED <<transfers, chan, completed_transfers, window>>
          /\ status' = "running"
      ]_vars

\* A draw tick has been handled after the refresh tick that received the
\* message of a transfer, with the focus on the remote pane.
C27_Witness ==
    /\ Running
    /\ ticks_elapsed = 1
    /\ completed_transfers = 1
    /\ state.active = "Remote"

\* The receivers whose pending message is an error, and the first of them in
\* the order the channels were registered.
PendingErrors(ch) == { k \in DOMAIN ch : ch[k] # <<>> /\ ch[k][1] # "" }

FirstError(ch) == ch[CHOOSE k \in PendingErrors(ch) : \A j \in PendingErrors(ch) : k <= j][1]

\* C28: a refresh tick re-lists both panes and receives every completion
\* message pending at that moment (each channel is left empty and counted);
\* when pending messages are errors, the notice after the tick is the first
\* of them in the order the channels were registered.
C28_RefreshTickDrains ==
    [][ (RefreshTick /\ status' = "running") =>
          /\ content' = update_both(content, show_hidden).content
          /\ \A k \in DOMAIN chan : chan'[k] = <<>>
          /\ completed_transfers' = completed_transfers + Received(chan)
          /\ PendingErrors(chan) # {} =>
               window' = error_message(window, FirstError(chan))
      ]_vars

\* The listings after a re-list of the pane opposite to pane a alone.
DestinationRelisted(a) ==
    IF a = "local"
    THEN update_remote(content, fs.remote, buf.remote, show_hidden).content
    ELSE update_local(content, fs.local, buf.local, show_hidden).content

\* C29: the transfer key on an active listing that is not empty, in one step
\* of the loop: one more transfer with its worker spawned (it has not run:
\* the filesystems are as they were) and one more channel, empty, the others
\* as they were; the destination pane is re-listed and its listing alone
\* changes; both working dirs, both selection indices and the active pane are
\* unchanged, and the loop goes on.
C29_TriggerFrame ==
    [][ (TriggerTransfer /\ ~Empty(ActivePane)) =>
          /\ status' = "running"
          /\ transfers' = Append(transfers, new_transfer(ActivePane).transfer)
          /\ Len(workers') = Len(workers) + 1
          /\ workers'[Len(workers')].pc = "spawned"
          /\ \A i \in DOMAIN workers : workers'[i] = workers[i]
          /\ chan' = Append(chan, <<>>)
          /\ fs' = fs
          /\ content' = DestinationRelisted(ActivePane)
          /\ content'[ActivePane] = content[ActivePane]
          /\ UNCHANGED <<buf, state, completed_transfers>>
      ]_vars

\* The notice is a transfer error.
ErrorShown == window.style = <<"error">>

\* C30: an error notice that is shown is cleared later on: from a state that
\* shows one, a state is reached whose notice is no error (a refresh tick has
\* reset it, or a further transfer was triggered and its flashing text took
\* its place), or the loop has ended.
C30_ErrorNoticeCleared ==
    ErrorShown ~> (~ErrorShown \/ ~Running)

---------------------------------------------------------------------------
\* What the claims about the engine are stated with.

\* A run of execute has ended, of the given kind.
RunEnded(kind) == job.phase = "ended" /\ job.transfer.kind = kind

\* The disk of the source and of the destination of the transfer, after it.
SourceDisk == IF job.transfer.kind = "Upload" THEN disk.local ELSE disk.remote

DestDisk == IF job.transfer.kind = "Upload" THEN disk.remote ELSE disk.local

\* The regular files and the directories in the tree at `from`: from itself
\* and what is below it, none of it a symbolic link or behind one.
InTree(d, from) == { q \in DOMAIN d : IsPrefix(from, q) /\ d[q].kind \in {"file", "dir"} }

\* q of the source tree is at the destination, at the same relative path, as
\* what it is and with the same bytes.
Copied(q) ==
    LET p == Rebase(q, job.transfer.from, job.transfer.to)
    IN  /\ p \in DOMAIN DestDisk
        /\ DestDisk[p].kind = SourceDisk[q].kind
        /\ DestDisk[p].bytes = SourceDisk[q].bytes

\* C25: after the upload of a local directory whose worker reports success
\* (execute returned Ok), every regular file and every subdirectory of the
\* source tree is at the remote destination, at the same relative path and
\* with the same bytes, whatever the delay after which a remote directory
\* shows.
C25_UploadMirrorsTree ==
    (RunEnded("Upload") /\ job.end = "Ok"
        /\ disk.local[job.transfer.from].kind = "dir")
    => \A q \in InTree(disk.local, job.transfer.from) : Copied(q)

\* The transfer that ended was of a directory: the recursion ran.
Recursive == is_dir(job.before[IF job.transfer.kind = "Upload" THEN "local" ELSE "remote"],
                    job.transfer.from)

\* The creation of exactly one destination file failed in the run that ended,
\* and no other call did.
OneCreateFailed ==
    /\ job.phase = "ended"
    /\ Recursive
    /\ job.x.fault.op = "create"
    /\ job.skipped = {job.x.fault.path}

\* C21: when, during a recursive transfer of a directory in either direction,
\* the creation of one destination file fails, execute still returns Ok (the
\* failure is swallowed), that file is skipped, and every other regular file
\* and subdirectory of the source tree is transferred.
C21_CreateFailureSkipsOnlyThatFile ==
    OneCreateFailed
    => /\ job.end = "Ok"
       /\ job.x.fault.path \notin DOMAIN DestDisk
       /\ \A q \in InTree(SourceDisk, job.transfer.from) :
            Rebase(q, job.transfer.from, job.transfer.to) # job.x.fault.path => Copied(q)

\* A download of the tree ended in which the creation of the local file a
\* failed and the file c of the subdirectory B was copied all the same.
C21_Witness ==
    /\ OneCreateFailed
    /\ job.transfer.kind = "Download"
    /\ job.x.fault.path = Push(job.transfer.to, NameFile)
    /\ Push(Push(job.transfer.from, NameDir), NameInner) \in DOMAIN disk.remote
    /\ Copied(Push(Push(job.transfer.from, NameDir), NameInner))
    /\ job.end = "Ok"

\* C22: when, in a run of execute in either direction, the read of a source
\* file or the write of a destination file fails after the destination file
\* was created, execute returns a TransferError.
C22_ReadWriteFailurePropagates ==
    (job.phase = "ended" /\ job.x.fault.op \in {"read", "write"})
    => job.end = "Err"

\* C23: when a call of a run of execute fails, other than the creation of a
\* destination file, execute returns a TransferError with a cause text, so
\* the message of the worker is not empty, and nothing that was at the
\* destination before the failure is taken away.  (A destination directory
\* that is there already is no failing call of the environment here.)
C23_IoFailureEndsInTransferError ==
    (job.phase = "ended" /\ job.x.fault # NoFault /\ job.x.fault.op # "create")
    => /\ job.end = "Err"
       /\ job.cause # ""
       /\ message(job.cause) # ""
       /\ DOMAIN job.before[IF job.transfer.kind = "Upload" THEN "remote" ELSE "local"]
            \subseteq DOMAIN DestDisk

\* What the run that ended has put at the destination.
Made == DOMAIN DestDisk \ DOMAIN job.before[IF job.transfer.kind = "Upload" THEN "remote"
                                                                          ELSE "local"]

\* Everything the run has put at the destination is a regular file or a
\* directory of the tree at `root` of the source, at the same relative path:
\* no entry stands for a symbolic link of that tree or for something below
\* one.
OnlyFromTree(root) ==
    \A p \in Made : \E q \in InTree(SourceDisk, root) : p = Rebase(q, root, job.transfer.to)

\* C24, as claimed: a transfer never copies or traverses a symbolic link; what
\* it puts at the destination is made of the regular files and directories of
\* the tree at the selected entry, none of them a symbolic link or reached
\* through one.
C24_NoSymlinkAsClaimed ==
    job.phase = "ended" => OnlyFromTree(job.transfer.from)

\* C24: a transfer never copies or traverses a symbolic link that it finds
\* among the entries of a directory it transfers; the selected entry itself
\* is followed when it is a symbolic link to a directory.  What the transfer
\* puts at the destination is made of the regular files and directories of
\* the tree at what the selected entry resolves to.
C24_NoSymlinkAmongEntries ==
    job.phase = "ended" => OnlyFromTree(Real(SourceDisk, job.transfer.from))

\* A download of a tree ended well whose directory holds a symbolic link to
\* the tree itself beside the file a and the subdirectory B: a and B/c are at
\* the destination, the link is not.
C24_Witness ==
    /\ RunEnded("Download")
    /\ job.end = "Ok"
    /\ Push(job.transfer.from, NameLink) \in DOMAIN disk.remote
    /\ disk.remote[Push(job.transfer.from, NameLink)] = Symlink(job.transfer.from)
    /\ Push(job.transfer.from, NameFile) \in DOMAIN disk.remote
    /\ Copied(Push(job.transfer.from, NameFile))
    /\ Push(Push(job.transfer.from, NameDir), NameInner) \in DOMAIN disk.remote
    /\ Copied(Push(Push(job.transfer.from, NameDir), NameInner))
    /\ Push(job.transfer.to, NameLink) \notin DOMAIN disk.local

\* C26: when a local regular file has been uploaded to the remote working
\* directory and the remote file has then been downloaded into a local
\* directory, both workers reporting success and both destination files
\* having been created, the local file that was downloaded has the bytes of
\* the original file.
C26_RoundTrip ==
    (job.phase = "back" /\ job.first.end = "Ok" /\ job.end = "Ok"
        /\ job.first.skipped = {} /\ job.skipped = {})
    => /\ job.transfer.to \in DOMAIN disk.local
       /\ disk.local[job.transfer.to].kind = "file"
       /\ disk.local[job.transfer.to].bytes = disk.local[job.first.transfer.from].bytes

\* C31: after the download of a remote directory whose local destination
\* directory was there already, with no failing call, execute has returned Ok
\* and every regular file and every subdirectory of the remote tree is at the
\* destination, as when the destination was not there.
C31_DownloadIntoExistingDirectory ==
    (RunEnded("Download")
        /\ disk.remote[job.transfer.from].kind = "dir"
        /\ job.transfer.to \in DOMAIN job.before.local
        /\ job.before.local[job.transfer.to].kind = "dir"
        /\ job.x.fault = NoFault)
    => /\ job.end = "Ok"
       /\ \A q \in InTree(disk.remote, job.transfer.from) : Copied(q)

\* C32: in the upload of a directory, the parent of each file is probed
\* before the file is written; a probe that fails is followed by a sleep and
\* another probe, at most Tries (5) probes are made, the write is attempted
\* after the loop whatever the last probe said, and the loop always ends.
C32_RetryLoopIsBounded ==
    /\ [](scenario = "retry" => job.i <= Tries /\ job.e.clock = job.i)
    /\ [](scenario = "retry" /\ job.phase = "write"
            => job.i = Tries \/ is_dir(job.e.remote, Pop(job.new_target_buf)))
    /\ [](scenario = "retry" /\ job.phase = "done" => job.wrote)
    /\ <>(scenario = "retry" /\ job.phase = "done")

\* The five probes all failed and the file was written all the same: the
\* directory showed during the last sleep.
C32_Witness ==
    /\ scenario = "retry"
    /\ job.phase = "done"
    /\ job.i = Tries
    /\ job.new_target_buf \in DOMAIN disk.remote
    /\ disk.remote[job.new_target_buf].bytes = disk.local[job.entry].bytes

\* The channels whose message the loop has taken: the worker has sent and the
\* channel is empty again.
Taken == { i \in DOMAIN workers : workers[i].pc = "sent" /\ chan[i] = <<>> }

\* C33: in every reachable state completed_transfers is at most the number of
\* receivers, and it is the number of the channels whose message was taken:
\* each channel adds one to it once, however many refresh ticks poll it
\* after that.
C33_CompletedAtMostReceivers ==
    /\ completed_transfers <= Len(chan)
    /\ completed_transfers = Cardinality(Taken)

\* Both messages were taken and a later refresh tick, the one that found the
\* loop idle and reset the window, polled both receivers again.
C33_Witness ==
    /\ Running
    /\ Len(chan) = MaxLoopTransfers
    /\ completed_transfers = MaxLoopTransfers
    /\ window = reset(window)

\* The execute of every transfer has returned.
AllExecuted == \A i \in DOMAIN workers : workers[i].pc \in {"executed", "sent"}

\* C34: a worker that is to send its message always finds room in its
\* channel, also after the loop has ended and nothing drains the channel any
\* more; and once main joins the workers and the execute of every transfer
\* has returned, every join returns and main returns.
C34_SendNeverBlocks ==
    /\ [](\A i \in DOMAIN workers : workers[i].pc = "executed" => Len(chan[i]) < 1)
    /\ ((status = "joining" /\ AllExecuted) ~> status = "exit: Ok")

\* Main has returned after joining two workers whose messages were sent and
\* never taken from their channels.
C34_Witness ==
    /\ status = "exit: Ok"
    /\ Len(workers) = MaxLoopTransfers
    /\ joined = MaxLoopTransfers
    /\ completed_transfers = 0
    /\ \A i \in DOMAIN chan : Len(chan[i]) = 1

\* The channels that hold a message, and those among them whose transfer
\* failed.
Pending == { i \in DOMAIN chan : chan[i] # <<>> }

PendingFailures == { i \in Pending : workers[i].result # "Ok" }

\* C35: the message of a worker is the empty string exactly when execute
\* returned Ok; so a refresh tick that takes the message of a failed transfer
\* leaves an error notice, and one that takes only messages of transfers that
\* succeeded puts up no error notice (the window stays, or is reset).
C35_MessageEmptyIffOk ==
    /\ [](\A i \in Pending : chan[i][1] = "" <=> workers[i].result = "Ok")
    /\ [][(RefreshTick /\ status' = "running")
            => /\ PendingFailures # {} => ErrorShown'
               /\ PendingFailures = {} => window' \in {window, reset(window)}]_vars

\* A refresh tick has taken the messages of a transfer that succeeded and of
\* one that failed: an error notice is shown.
C35_Witness ==
    /\ Running
    /\ completed_transfers = MaxLoopTransfers
    /\ \E i, j \in DOMAIN workers :
         /\ workers[i].pc = "sent" /\ workers[i].result = "Ok"
         /\ workers[j].pc = "sent" /\ workers[j].result # "Ok"
    /\ ErrorShown
    /\ window.text = <<message(workers[CHOOSE j \in DOMAIN workers : workers[j].result # "Ok"].result)>>

\* A step of a key that moves the cursor or jumps, and of a key that enters or
\* exits a directory.
CursorStep == MoveDown \/ MoveUp \/ JumpTop \/ JumpBottom

DirectoryStep == Enter \/ Exit

\* The pane that is not active keeps its working dir, its listing and its
\* selection, and the active flag stays.
InactivePaneKept ==
    LET o == OtherPane(ActivePane)
    IN  /\ buf'[o] = buf[o]
        /\ content'[o] = content[o]
        /\ state'[o] = state[o]
        /\ state'.active = state.active

\* C36: a step of cursor movement, jump, enter or exit leaves the inactive
\* pane's working dir, listing and selection and the active flag unchanged;
\* a step of cursor movement or jump leaves both working dirs and both
\* listings unchanged as well.
C36_NavigationActsOnActivePane ==
    /\ [][CursorStep \/ DirectoryStep => InactivePaneKept]_vars
    /\ [][CursorStep => buf' = buf /\ content' = content]_vars

\* The remote pane is active and has entered a directory while the cursor of
\* the local pane, moved before the switch, is still on its second row.
C36_Witness ==
    /\ Running
    /\ state.active = "Remote"
    /\ state.local = Some(1)
    /\ Len(buf.remote) > Len(buf.local)

\* No entry is twice in the sequence s of source entries, under its own path
\* or as what its path resolves to.
VisitedOnce(s, d) ==
    \A i, j \in DOMAIN s : i # j => s[i] # s[j] /\ Real(d, s[i]) # Real(d, s[j])

\* C37: a transfer that was given to a worker, in either direction, ends (with
\* Ok, with an error or with a panic) when every call it makes returns; the
\* run comes to each entry of the source tree at most once, to no symbolic
\* link below the selected entry, and to no more entries than the source
\* holds, also when a symbolic link of the tree points back to the tree.
C37_TransferTerminates ==
    /\ [](job.phase = "ended"
            => /\ VisitedOnce(job.visited, SourceDisk)
               /\ \A i \in DOMAIN job.visited :
                    i > 1 => ~is_symlink(SourceDisk, job.visited[i])
               /\ Len(job.visited) <= Cardinality(DOMAIN SourceDisk))
    /\ (job.phase = "given" ~> job.phase = "ended")

\* The upload of a tree that holds a symbolic link to the tree itself has
\* ended well after coming to the directory, its file a, its subdirectory B
\* and the file c in it, once each.
C37_Witness ==
    /\ RunEnded("Upload")
    /\ job.end = "Ok"
    /\ Push(job.transfer.from, NameLink) \in DOMAIN disk.local
    /\ disk.local[Push(job.transfer.from, NameLink)] = Symlink(job.transfer.from)
    /\ Len(job.visited) = 4
    /\ job.visited[4] = Push(Push(job.transfer.from, NameDir), NameInner)

====
